---- MODULE Spec2Model ----
(***************************************************************************)
(* BlazeORM persistence core: Session, TransactionManager, UnitOfWork and  *)
(* IdentityMap over the SQLite adapter.  Every handler is written as an    *)
(* operator from the program state (a record) to the state it leaves       *)
(* behind, so that a handler that calls other handlers (Session.commit     *)
(* calls begin, flush and TransactionManager.commit) is one step.          *)
(***************************************************************************)
EXTENDS Integers, Sequences, FiniteSets, TLC

\* ---------------------------------------------------------------- bounds
MaxInst == 2          \* Python objects of the record type that may exist
MaxPk == 2            \* primary keys the table may hand out
MaxVal == 1           \* values of the tracked column: 0..MaxVal
MaxDepth == 2         \* open transaction frames of a session
MaxSavepoints == 2    \* savepoint names a session's counter may hand out
MaxSteps == 5         \* calls in one run of a session
MaxFetchSteps == 6    \* calls in one run of the fetch harness
MaxCacheSteps == 5    \* calls in one run of the sessions that share a cache
MaxFrameSteps == 7    \* calls in one run of the transaction-frame harness
MaxTMDepth == 3       \* open frames of a transaction manager used on its own
MaxTMSavepoints == 4  \* savepoint names of a transaction manager used on its own
MaxParam == 2         \* distinct plain parameter values
MaxThreshold == 3     \* largest n_plus_one_threshold a tracker is built with
MaxPerfSteps == 5     \* calls on one performance tracker
MaxThreads == 2       \* threads sharing one session
MaxOnceSteps == 6     \* calls in one run of the session that adds each instance once
MaxTableOps == 3      \* operations the threads start on one locked table
MaxOwner == 2         \* instances of the model that declares the many-to-many field
MaxRelated == 2       \* instances of the model it relates to
MaxObjs == 2          \* arguments of one add or remove
MaxM2MOps == 4        \* calls made on the relation
MaxChain == 3         \* calls made on the query sets and Q objects
MaxAuthors == 2       \* rows of the table the foreign key points to
MaxArticles == 2      \* rows of the table that holds the foreign key
MaxCategories == 1    \* rows of the other side of the many-to-many field
MaxSqlLen == 3        \* characters of a statement handed to an adapter
MaxBound == 2         \* parameters handed over with it
MaxOps == 2           \* operations of one migration
MaxHops == 2          \* foreign keys in a row: record type 0 -> 1 -> ... -> MaxHops
MaxBaseRows == 2      \* rows of the base table

Inst == 1..MaxInst
PK == 1..MaxPk
Vals == 0..MaxVal
Bad == MaxVal + 1     \* a value the validators of the column reject

NoInst == 0           \* Python None where an instance is expected
NoPk == 0             \* Python None as primary key value
Absent == -1          \* no row under that key
Root == 0             \* the None marker of the root frame on the stack

\* ------------------------------------------------------------- variables
VARIABLES
    stack,      \* TransactionManager._stack: Root or a savepoint number n (sp_n)
    counter,    \* next value of TransactionManager._savepoint_counter
    new,        \* UnitOfWork.new
    dirty,      \* UnitOfWork.dirty
    deleted,    \* UnitOfWork.deleted
    snaps,      \* Session._uow_snapshots
    idmap,      \* IdentityMap._store, keyed by primary key (one record type)
    inst,       \* the instances: pk, current value, _initial_state
    cache,      \* InMemoryCache._store, keyed by primary key: the cached column value
    conn,       \* SQLiteAdapter._state is set
    db,         \* the SQLite database behind the connection
    cfg,        \* Session.autocommit, dialect.capabilities.supports_savepoints,
                \* whether Session.cache is an InMemoryCache (else the default
                \* NoOpCache), and the number of calls the run may make
    last,       \* the last call: its name, the adapter calls it made, error, result
    issued,     \* history: savepoint names handed out so far, in order
    hist,       \* history: was close() called; per open frame, what its begin saw
    steps,      \* history: calls made so far
    scn,        \* history: progress of the nested-rollback scenario
    obj,        \* one fetched instance column by column, and what _persist_dirty sent
    perf,       \* PerformanceTracker: _stats, _reported, and the warnings logged
    mutex,      \* Session._lock, an RLock: the owning thread and its recursion level
    tbl,        \* a dict behind a lock (IdentityMap, InMemoryCache) and the threads using it
    m2m,        \* the many-to-many relation: junction rows, cached lists, pairs asked for
    qry,        \* the QuerySet and Q objects made so far
    pf,         \* prefetch_related: the rows, the request, the statements and what each instance got
    adp,        \* the last statement handed to an adapter and what became of it
    mig,        \* the migration engine: what the database holds and what the last apply sent
    hk,         \* one flush: the instance in each set, the events and statements in order
    sr,         \* select_related on a chain of foreign keys
    thr         \* per thread: the Session methods it is inside, the one it waits to enter;
                \* or, for a thread that fetches a row, how far its fetch has come

\* the parts added for one property each
ext == <<tbl, m2m, qry, pf, adp, mig, hk, sr>>

\* the session and its database
core == <<stack, counter, new, dirty, deleted, snaps, idmap, inst, cache, conn, db,
          cfg, last, issued, hist, steps, scn>>

\* the session and its database without the identity map and the instances
coreRest == <<stack, counter, new, dirty, deleted, snaps, cache, conn, db,
              cfg, last, issued, hist, steps, scn>>

\* the parts of the program looked at on their own
side == <<obj, perf, mutex, thr, ext>>

vars == <<core, side>>

\* The program state as one record, for the handlers below.
St ==
    [stack |-> stack, counter |-> counter, new |-> new, dirty |-> dirty,
     deleted |-> deleted, snaps |-> snaps, idmap |-> idmap, inst |-> inst,
     cache |-> cache, conn |-> conn, db |-> db, cfg |-> cfg, issued |-> issued,
     frames |-> hist.frames,
     stmts |-> <<>>, fired |-> <<>>, path |-> <<>>, err |-> "none",
     found |-> FALSE, ret |-> [k \in PK |-> NoInst],
     over |-> FALSE]

Max(a, b) == IF a >= b THEN a ELSE b
Pop(q) == SubSeq(q, 1, Len(q) - 1)
Top(q) == q[Len(q)]

Raise(s, e) == [s EXCEPT !.err = e]
Log(s, kind, arg) == [s EXCEPT !.stmts = Append(@, <<kind, arg>>)]

\* HookDispatcher.fire: the event, and how many statements the call had
\* issued when it fired
Fire(s, event) == [s EXCEPT !.fired = Append(@, <<event, Len(s.stmts)>>)]

\* ------------------------------------------------------------ the adapter
\* sqlite3 connection state: rows and the AUTOINCREMENT sequence, the state
\* a ROLLBACK returns to (base), the open savepoints, and how the open
\* transaction was started ("idle": none, "tx": by BEGIN or implicitly by a
\* data statement, "sp": by a SAVEPOINT outside a transaction).
Snap(d) == [rows |-> d.rows, seq |-> d.seq]

DbCommit(d) == [d EXCEPT !.base = Snap(d), !.saves = <<>>, !.mode = "idle"]

DbRollback(d) ==
    [d EXCEPT !.rows = d.base.rows, !.seq = d.base.seq, !.saves = <<>>,
              !.mode = "idle"]

\* index of the most recent open savepoint of that name, 0 if none
SaveIndex(d, n) ==
    LET hits == {k \in 1..Len(d.saves) : d.saves[k].name = n}
    IN  IF hits = {} THEN 0 ELSE CHOOSE k \in hits : \A h \in hits : h <= k

\* SQLiteAdapter.connect: a fresh connection on the same database file
AdapterConnect(s) == [s EXCEPT !.conn = TRUE]

\* SQLiteAdapter.close: idempotent; closing drops the uncommitted work
AdapterClose(s) ==
    IF s.conn THEN [s EXCEPT !.conn = FALSE, !.db = DbRollback(s.db)] ELSE s

\* SQLiteAdapter.begin
AdapterBegin(s) ==
    LET s1 == Log(s, "BEGIN", 0)
    IN  IF ~s.conn THEN Raise(s1, "AdapterConnectionError")
        ELSE IF s.db.mode # "idle" THEN s1
        ELSE [s1 EXCEPT !.db.mode = "tx", !.db.base = Snap(s.db)]

\* SQLiteAdapter.commit
AdapterCommit(s) ==
    LET s1 == Log(s, "COMMIT", 0)
    IN  IF ~s.conn THEN Raise(s1, "AdapterConnectionError")
        ELSE [s1 EXCEPT !.db = DbCommit(s.db)]

\* SQLiteAdapter.rollback
AdapterRollback(s) ==
    LET s1 == Log(s, "ROLLBACK", 0)
    IN  IF ~s.conn THEN Raise(s1, "AdapterConnectionError")
        ELSE [s1 EXCEPT !.db = DbRollback(s.db)]

\* SQLiteAdapter.execute("SAVEPOINT sp_n")
ExecSavepoint(s, n) ==
    LET s1 == Log(s, "SAVEPOINT", n)
        d == s.db
    IN  IF ~s.conn THEN Raise(s1, "AdapterConnectionError")
        ELSE [s1 EXCEPT
                !.db.saves = Append(d.saves, [name |-> n, rows |-> d.rows, seq |-> d.seq]),
                !.db.mode = IF d.mode = "idle" THEN "sp" ELSE d.mode,
                !.db.base = IF d.mode = "idle" THEN Snap(d) ELSE d.base]

\* SQLiteAdapter.execute("RELEASE SAVEPOINT sp_n")
ExecRelease(s, n) ==
    LET s1 == Log(s, "RELEASE", n)
        d == s.db
        k == SaveIndex(d, n)
    IN  IF ~s.conn THEN Raise(s1, "AdapterConnectionError")
        ELSE IF k = 0 THEN Raise(s1, "OperationalError")
        ELSE IF k = 1 /\ d.mode = "sp" THEN [s1 EXCEPT !.db = DbCommit(d)]
        ELSE [s1 EXCEPT !.db.saves = SubSeq(d.saves, 1, k - 1)]

\* SQLiteAdapter.execute("ROLLBACK TO SAVEPOINT sp_n")
ExecRollbackTo(s, n) ==
    LET s1 == Log(s, "ROLLBACK_TO", n)
        d == s.db
        k == SaveIndex(d, n)
    IN  IF ~s.conn THEN Raise(s1, "AdapterConnectionError")
        ELSE IF k = 0 THEN Raise(s1, "OperationalError")
        ELSE [s1 EXCEPT !.db.rows = d.saves[k].rows, !.db.seq = d.saves[k].seq,
                        !.db.saves = SubSeq(d.saves, 1, k)]

\* a data statement outside a transaction opens one implicitly
Implicit(d) == IF d.mode = "idle" THEN [d EXCEPT !.mode = "tx", !.base = Snap(d)] ELSE d

\* Session.execute(INSERT ...) for instance i; pk = NoPk lets the table choose
ExecInsert(s, i, pk, v) ==
    LET s1 == Log(s, "INSERT", i)
        d == Implicit(s.db)
        k == IF pk = NoPk THEN d.seq + 1 ELSE pk
    IN  IF ~s.conn THEN Raise(s1, "AdapterConnectionError")
        ELSE IF k > MaxPk THEN [s1 EXCEPT !.over = TRUE, !.err = "bound"]
        ELSE IF d.rows[k] # Absent THEN Raise([s1 EXCEPT !.db = d], "IntegrityError")
        ELSE [s1 EXCEPT !.db = [d EXCEPT !.rows[k] = v, !.seq = Max(d.seq, k)]]

\* Session.execute(UPDATE ... WHERE pk = ?)
ExecUpdate(s, i, pk, v) ==
    LET s1 == Log(s, "UPDATE", i)
        d == Implicit(s.db)
    IN  IF ~s.conn THEN Raise(s1, "AdapterConnectionError")
        ELSE IF d.rows[pk] = Absent THEN [s1 EXCEPT !.db = d]
        ELSE [s1 EXCEPT !.db = [d EXCEPT !.rows[pk] = v]]

\* Session.execute(DELETE ... WHERE pk = ?)
ExecDelete(s, i, pk) ==
    LET s1 == Log(s, "DELETE", i)
        d == Implicit(s.db)
    IN  IF ~s.conn THEN Raise(s1, "AdapterConnectionError")
        ELSE [s1 EXCEPT !.db = [d EXCEPT !.rows[pk] = Absent]]

\* Session.execute(SELECT ...)
ExecSelect(s, pk) ==
    LET s1 == Log(s, "SELECT", pk)
    IN  IF ~s.conn THEN Raise(s1, "AdapterConnectionError") ELSE s1

\* ------------------------------------------------- the transaction manager
Depth(s) == Len(s.stack)

\* history of a frame: the name in the statement that opened it (Root for the
\* native BEGIN) and the unit-of-work sets at that moment
Opened(r) ==
    [name |-> IF Top(r.stmts)[1] = "SAVEPOINT" THEN Top(r.stmts)[2] ELSE Root,
     new |-> r.new, dirty |-> r.dirty, deleted |-> r.deleted]

\* a manager that names a savepoint after the depth it is opened at
NextSavepointNameByDepth(s) == Len(s.stack)

\* TransactionManager._next_savepoint_name: sp_<next(counter)>
NextSavepointName(s) == s.counter

\* a manager that never asks the dialect for savepoint support
TMBeginNoCapabilityCheck(s) ==
    IF Len(s.stack) = 0 THEN
        LET r == AdapterBegin(s)
        IN  IF r.err # "none" THEN r
            ELSE [r EXCEPT !.stack = Append(@, Root), !.frames = Append(@, Opened(r))]
    ELSE
        LET name == s.counter
            s1 == [s EXCEPT !.counter = @ + 1, !.issued = Append(@, name)]
            r == ExecSavepoint(s1, name)
        IN  IF r.err # "none" THEN r
            ELSE [r EXCEPT !.stack = Append(@, name), !.frames = Append(@, Opened(r))]

\* TransactionManager.begin
TMBegin(s) ==
    IF Depth(s) = 0 THEN
        LET r == AdapterBegin(s)
        IN  IF r.err # "none" THEN r
            ELSE [r EXCEPT !.stack = Append(@, Root), !.frames = Append(@, Opened(r))]
    ELSE IF ~s.cfg.savepoints THEN Raise(s, "TransactionError")
    ELSE
        LET name == NextSavepointName(s)
            s1 == [s EXCEPT !.counter = @ + 1, !.issued = Append(@, name)]
            r == ExecSavepoint(s1, name)
        IN  IF r.err # "none" THEN r
            ELSE [r EXCEPT !.stack = Append(@, name), !.frames = Append(@, Opened(r))]

\* a manager that commits the oldest open frame instead of the newest
TMCommitOldest(s) ==
    IF Len(s.stack) = 0 THEN Raise(s, "TransactionError")
    ELSE
        LET name == Head(s.stack)
            s1 == [s EXCEPT !.stack = Tail(@), !.frames = Tail(@)]
        IN  IF name = Root THEN AdapterCommit(s1) ELSE ExecRelease(s1, name)

\* a manager that pops the frame only after its statement went through
TMCommitPopsLast(s) ==
    IF Len(s.stack) = 0 THEN Raise(s, "TransactionError")
    ELSE
        LET name == Top(s.stack)
            r == IF name = Root THEN AdapterCommit(s) ELSE ExecRelease(s, name)
        IN  IF r.err # "none" THEN r
            ELSE [r EXCEPT !.stack = Pop(@), !.frames = Pop(@)]

\* TransactionManager.commit
TMCommit(s) ==
    IF Depth(s) = 0 THEN Raise(s, "TransactionError")
    ELSE
        LET name == Top(s.stack)
            s1 == [s EXCEPT !.stack = Pop(@), !.frames = Pop(@)]
        IN  IF name = Root THEN AdapterCommit(s1) ELSE ExecRelease(s1, name)

\* a manager whose rollback does not look at the depth first
TMRollbackNoDepthCheck(s) ==
    IF Len(s.stack) = 0 THEN AdapterRollback(s)
    ELSE
        LET name == Top(s.stack)
            s1 == [s EXCEPT !.stack = Pop(@), !.frames = Pop(@)]
        IN  IF name = Root THEN AdapterRollback(s1)
            ELSE LET r == ExecRollbackTo(s1, name)
                 IN  IF r.err # "none" THEN r ELSE ExecRelease(r, name)

\* TransactionManager.rollback
TMRollback(s) ==
    IF Depth(s) = 0 THEN Raise(s, "TransactionError")
    ELSE
        LET name == Top(s.stack)
            s1 == [s EXCEPT !.stack = Pop(@), !.frames = Pop(@)]
        IN  IF name = Root THEN AdapterRollback(s1)
            ELSE LET r == ExecRollbackTo(s1, name)
                 IN  IF r.err # "none" THEN r ELSE ExecRelease(r, name)

\* ------------------------------------------------------- the identity map
\* an identity map that forgets what it is given
IdAddNothing(s, i) == s

\* IdentityMap.add: no-op without a primary key, else store[key] = instance
IdAdd(s, i) ==
    IF s.inst[i].pk = NoPk THEN s ELSE [s EXCEPT !.idmap[s.inst[i].pk] = i]

\* IdentityMap.get
IdGet(s, pk) == s.idmap[pk]

\* IdentityMap.remove: pops the key of the instance, whoever is stored there
IdRemove(s, i) ==
    IF s.inst[i].pk = NoPk THEN s ELSE [s EXCEPT !.idmap[s.inst[i].pk] = NoInst]

\* IdentityMap.clear
IdClear(s) == [s EXCEPT !.idmap = [k \in PK |-> NoInst]]

\* IdentityMap.values
IdValues(s) == {s.idmap[k] : k \in PK} \ {NoInst}

\* ------------------------------------------------ the second-level cache
\* CacheBackend.get: InMemoryCache returns the stored payload, NoOpCache None
CacheGet(s, pk) == IF s.cfg.cache THEN s.cache[pk] ELSE Absent

\* CacheBackend.set
CacheSet(s, pk, v) == IF s.cfg.cache THEN [s EXCEPT !.cache[pk] = v] ELSE s

\* CacheBackend.delete
CacheDelete(s, pk) == IF s.cfg.cache THEN [s EXCEPT !.cache[pk] = Absent] ELSE s

\* Session._cache_instance
CacheInstance(s, i) ==
    IF s.inst[i].pk = NoPk THEN s ELSE CacheSet(s, s.inst[i].pk, s.inst[i].val)

\* Session._invalidate_cache
InvalidateCache(s, i) ==
    IF s.inst[i].pk = NoPk THEN s ELSE CacheDelete(s, s.inst[i].pk)

\* ------------------------------------------------------- the unit of work
\* Model.is_dirty: some field differs from _initial_state
IsDirty(s, i) == s.inst[i].val # s.inst[i].init

\* UnitOfWork.register_new
RegisterNew(s, i) == [s EXCEPT !.new = @ \cup {i}]

\* UnitOfWork.register_dirty
RegisterDirty(s, i) == IF i \notin s.new THEN [s EXCEPT !.dirty = @ \cup {i}] ELSE s

\* UnitOfWork.register_deleted
RegisterDeleted(s, i) ==
    [s EXCEPT !.new = @ \ {i}, !.dirty = @ \ {i}, !.deleted = @ \cup {i}]

\* UnitOfWork.collect_dirty
CollectDirty(s, candidates) ==
    LET hit == {i \in candidates : i \notin s.new /\ IsDirty(s, i)}
    IN  [s EXCEPT !.dirty = @ \cup {i \in hit : i \in RegisterDirty(s, i).dirty}]

\* UnitOfWork.clear
UowClear(s) == [s EXCEPT !.new = {}, !.dirty = {}, !.deleted = {}]

\* ------------------------------------------------------------ the session
\* Session._snapshot_uow
SnapshotUow(s) ==
    [s EXCEPT !.snaps = Append(@, [new |-> s.new, dirty |-> s.dirty,
                                   deleted |-> s.deleted])]

\* Session._discard_uow_snapshot
DiscardUowSnapshot(s) == IF s.snaps # <<>> THEN [s EXCEPT !.snaps = Pop(@)] ELSE s

\* Session._restore_uow_snapshot
RestoreUowSnapshot(s) ==
    IF s.snaps = <<>> THEN UowClear(s)
    ELSE [s EXCEPT !.new = Top(s.snaps).new, !.dirty = Top(s.snaps).dirty,
                   !.deleted = Top(s.snaps).deleted, !.snaps = Pop(@)]

\* Session._ensure_adapter_connected
EnsureAdapterConnected(s) == IF ~s.conn THEN AdapterConnect(s) ELSE s

\* Session.begin
SBegin(s) ==
    LET r == TMBegin(EnsureAdapterConnected(s))
    IN  IF r.err # "none" THEN r ELSE SnapshotUow(r)

\* Model.full_clean / validate_instance: the validators of the column pass
FullClean(s, i) == s.inst[i].val # Bad

\* Session._persist_new (no hook handler is registered)
PersistNew(s, i) ==
    LET r == ExecInsert(s, i, s.inst[i].pk, s.inst[i].val)
        k == IF s.inst[i].pk = NoPk THEN r.db.seq ELSE s.inst[i].pk
    IN  IF ~FullClean(s, i) THEN Raise(s, "ValidationError")
        ELSE IF r.err # "none" THEN r
        ELSE CacheInstance(
                IdAdd([r EXCEPT !.inst[i].pk = k, !.inst[i].init = s.inst[i].val], i), i)

\* a _persist_dirty that leaves _initial_state as it was
PersistDirtyKeepsInitial(s, i) ==
    IF ~FullClean(s, i) THEN Raise(s, "ValidationError")
    ELSE IF s.inst[i].pk = NoPk THEN Raise(s, "ValueError")
    ELSE IF s.inst[i].val = s.inst[i].init THEN s
    ELSE LET r == ExecUpdate(s, i, s.inst[i].pk, s.inst[i].val)
         IN  IF r.err # "none" THEN r ELSE CacheInstance(r, i)

\* Session._persist_dirty
PersistDirty(s, i) ==
    IF ~FullClean(s, i) THEN Raise(s, "ValidationError")
    ELSE IF s.inst[i].pk = NoPk THEN Raise(s, "ValueError")
    ELSE IF s.inst[i].val = s.inst[i].init THEN s
    ELSE LET r == ExecUpdate(s, i, s.inst[i].pk, s.inst[i].val)
         IN  IF r.err # "none" THEN r
             ELSE CacheInstance([r EXCEPT !.inst[i].init = s.inst[i].val], i)

\* Session._persist_deleted
PersistDeleted(s, i) ==
    IF s.inst[i].pk = NoPk THEN s
    ELSE LET r == ExecDelete(s, i, s.inst[i].pk)
         IN  IF r.err # "none" THEN r ELSE InvalidateCache(IdRemove(r, i), i)

\* The three loops of Session.flush.  Python iterates a set in an order the
\* program does not control, so each loop yields the set of states it may
\* leave behind: every order, cut short at the first error.
RECURSIVE DrainNew(_, _)
DrainNew(s, todo) ==
    IF todo = {} THEN {s}
    ELSE UNION {LET r == PersistNew(s, i)
                IN  IF r.err # "none" THEN {r}
                    ELSE DrainNew([r EXCEPT !.new = @ \ {i}], todo \ {i})
                : i \in todo}

RECURSIVE DrainDirty(_, _)
DrainDirty(s, todo) ==
    IF todo = {} THEN {s}
    ELSE UNION {LET r == PersistDirty(s, i)
                IN  IF r.err # "none" THEN {r}
                    ELSE DrainDirty([r EXCEPT !.dirty = @ \ {i}], todo \ {i})
                : i \in todo}

RECURSIVE DrainDeleted(_, _)
DrainDeleted(s, todo) ==
    IF todo = {} THEN {s}
    ELSE UNION {LET r == PersistDeleted(s, i)
                IN  IF r.err # "none" THEN {r}
                    ELSE DrainDeleted([r EXCEPT !.deleted = @ \ {i}], todo \ {i})
                : i \in todo}

\* a flush that writes the deletes before the inserts and the updates
SFlushDeletesFirst(s) ==
    LET s0 == CollectDirty(s, IdValues(s))
    IN  UNION {IF a.err # "none" THEN {a}
               ELSE UNION {IF b.err # "none" THEN {b} ELSE DrainDirty(b, b.dirty)
                           : b \in DrainNew(a, a.new)}
               : a \in DrainDeleted(s0, s0.deleted)}

\* Session.flush
SFlush(s) ==
    LET s0 == CollectDirty(s, IdValues(s))
    IN  UNION {IF a.err # "none" THEN {a}
               ELSE UNION {IF b.err # "none" THEN {b} ELSE DrainDeleted(b, b.deleted)
                           : b \in DrainDirty(a, a.dirty)}
               : a \in DrainNew(s0, s0.new)}

\* a commit that tells its listeners of every frame it commits
CommitFrameAlwaysFires(f) ==
    LET t == TMCommit(f)
        u == DiscardUowSnapshot(t)
    IN  IF t.err # "none" THEN t
        ELSE IF Len(u.stack) = 0 THEN Fire(UowClear(u), "after_commit")
        ELSE Fire(u, "after_commit")

\* a commit that leaves the snapshot of the frame it closed on the list
CommitFrameKeepsSnapshot(f) ==
    LET t == TMCommit(f)
    IN  IF t.err # "none" THEN t
        ELSE IF Depth(t) = 0 THEN Fire(UowClear(t), "after_commit") ELSE t

\* Session.commit after its flush
CommitFrame(f) ==
    LET t == TMCommit(f)
        u == DiscardUowSnapshot(t)
    IN  IF t.err # "none" THEN t
        ELSE IF Depth(u) = 0 THEN Fire(UowClear(u), "after_commit") ELSE u

\* a commit that does not open a frame when none is open
SCommitNoBegin(s) ==
    UNION {IF f.err # "none" THEN {f} ELSE {CommitFrame(f)} : f \in SFlush(s)}

\* Session.commit
SCommit(s) ==
    LET s1 == IF Depth(s) = 0 THEN SBegin(s) ELSE s
    IN  IF s1.err # "none" THEN {s1}
        ELSE UNION {IF f.err # "none" THEN {f} ELSE {CommitFrame(f)} : f \in SFlush(s1)}

\* a rollback that closes the frame and restores the snapshot but leaves the
\* rows of the frame in the database
SRollbackKeepsRows(s) ==
    IF Depth(s) = 0 THEN Raise(s, "TransactionError")
    ELSE RestoreUowSnapshot([s EXCEPT !.stack = Pop(@), !.frames = Pop(@)])

\* a rollback that also empties the identity map
SRollbackClearsIdentityMap(s) ==
    LET t == TMRollback(s)
    IN  IF t.err # "none" THEN t ELSE IdClear(RestoreUowSnapshot(t))

\* Session.rollback
SRollback(s) ==
    LET t == TMRollback(s)
    IN  IF t.err # "none" THEN t ELSE RestoreUowSnapshot(t)

\* a close that also drops the open frames
SCloseDropsFrames(s) ==
    [IdClear(AdapterClose(s)) EXCEPT !.snaps = <<>>, !.stack = <<>>, !.frames = <<>>]

\* Session.close
SClose(s) == [IdClear(AdapterClose(s)) EXCEPT !.snaps = <<>>]

\* Session.add
SAdd(s, i) ==
    LET r == RegisterNew(s, i) IN IF s.cfg.autocommit THEN SCommit(r) ELSE {r}

\* Session.delete
SDelete(s, i) ==
    LET r == RegisterDeleted(s, i) IN IF s.cfg.autocommit THEN SCommit(r) ELSE {r}

\* Session.mark_dirty
SMarkDirty(s, i) == RegisterDirty(s, i)

\* "with session.transaction():" around a body that adds instance i (nothing
\* for NoInst) and then, if raises, raises an exception of its own: begin, the
\* body, rollback in the except branch, commit in the else branch
STransaction(s, i, raises) ==
    LET b == SBegin(s)
        body == IF i = NoInst THEN {b} ELSE SAdd(b, i)
    IN  IF b.err # "none" THEN {b}
        ELSE UNION {IF y.err # "none" \/ raises
                    THEN {LET r == SRollback(y)
                          IN  IF r.err # "none" THEN r
                              ELSE Raise(r, IF y.err # "none" THEN y.err ELSE "BodyError")}
                    ELSE SCommit(y)
                    : y \in body}

\* the lowest free object slot; NoInst when the pool is used up
FreeSlot(s) ==
    IF \A i \in Inst : s.inst[i].live THEN NoInst
    ELSE CHOOSE i \in Inst : ~s.inst[i].live /\ \A j \in Inst : j < i => s.inst[j].live

\* Session._materialize
Materialize(s, pk, v) ==
    LET cached == IdGet(s, pk)
        i == FreeSlot(s)
    IN  IF cached # NoInst THEN [s EXCEPT !.ret[pk] = cached]
        ELSE IF i = NoInst THEN [s EXCEPT !.over = TRUE]
        ELSE [CacheInstance(
                IdAdd([s EXCEPT !.inst[i] = [live |-> TRUE, pk |-> pk, val |-> v,
                                             init |-> v, src |-> "db"]], i), i)
                EXCEPT !.ret[pk] = i]

\* what a get looked at, in order
Consult(s, place) == [s EXCEPT !.path = Append(@, place)]

\* the branch of Session.get that builds the instance from a cached payload
FromCache(s, pk, payload) ==
    LET i == FreeSlot(s)
    IN  IF i = NoInst THEN [s EXCEPT !.over = TRUE]
        ELSE [IdAdd([s EXCEPT !.inst[i] = [live |-> TRUE, pk |-> pk, val |-> payload,
                                           init |-> payload, src |-> "cache"]], i)
                EXCEPT !.ret[pk] = i]

\* a get that asks the database before it asks the cache
SGetDatabaseFirst(s, pk) ==
    LET s1 == Consult(s, "identity_map")
        cached == s.idmap[pk]
        r == ExecSelect(Consult(s1, "database"), pk)
        s2 == Consult(r, "cache")
    IN  IF cached # NoInst THEN [s1 EXCEPT !.ret[pk] = cached]
        ELSE IF r.err # "none" THEN r
        ELSE IF r.db.rows[pk] # Absent THEN Materialize(r, pk, r.db.rows[pk])
        ELSE IF s.cfg.cache /\ s.cache[pk] # Absent THEN FromCache(s2, pk, s.cache[pk])
        ELSE s2

\* Session.get(Type, pk=k)
SGet(s, pk) ==
    LET s1 == Consult(s, "identity_map")
        cached == IdGet(s1, pk)
        s2 == Consult(s1, "cache")
        payload == CacheGet(s2, pk)
        r == ExecSelect(Consult(s2, "database"), pk)
    IN  IF cached # NoInst THEN [s1 EXCEPT !.ret[pk] = cached]
        ELSE IF payload # Absent THEN FromCache(s2, pk, payload)
        ELSE IF r.err # "none" THEN r
        ELSE IF r.db.rows[pk] = Absent THEN r
        ELSE Materialize(r, pk, r.db.rows[pk])

\* Session.get(Type, pk=k) of another session that shares the cache backend
\* and the database file: its identity map is its own and holds nothing, and
\* its connection reads what is committed
PeerGet(s, pk) ==
    LET s1 == Consult(Consult(s, "identity_map"), "cache")
        payload == CacheGet(s1, pk)
        s2 == Consult(s1, "database")
        row == s.db.base.rows[pk]
    IN  IF payload # Absent THEN [s1 EXCEPT !.found = TRUE]
        ELSE IF row = Absent THEN s2
        ELSE [CacheSet(s2, pk, row) EXCEPT !.found = TRUE]

\* QuerySet.__iter__ of Session.query(Type): one SELECT, then each row
\* goes through Session._materialize, in key order
RECURSIVE MaterializeRows(_, _)
MaterializeRows(s, k) ==
    IF k > MaxPk THEN s
    ELSE IF s.db.rows[k] = Absent THEN MaterializeRows(s, k + 1)
    ELSE MaterializeRows(Materialize(s, k, s.db.rows[k]), k + 1)

SQuery(s) ==
    LET r == ExecSelect(s, NoPk)
    IN  IF r.err # "none" THEN r ELSE MaterializeRows(r, 1)

\* the caller constructs a transient instance: Model.__init__
NewInstance(s, v) ==
    LET i == FreeSlot(s)
    IN  IF i = NoInst THEN [s EXCEPT !.over = TRUE]
        ELSE [s EXCEPT !.inst[i] = [live |-> TRUE, pk |-> NoPk, val |-> v, init |-> v,
                                     src |-> "caller"]]

\* the caller assigns a field of an instance it holds
SetField(s, i, v) == [s EXCEPT !.inst[i].val = v]

\* ------------------------------------------------------------------ Init
\* A session right after Session.__init__ (connected, nothing tracked), on
\* a database file that earlier sessions left with some committed rows.
NoRet == [k \in PK |-> NoInst]

SeededDb(n) ==
    LET t == [rows |-> [k \in PK |-> IF k <= n THEN 0 ELSE Absent], seq |-> n]
    IN  [rows |-> t.rows, seq |-> t.seq, base |-> t, saves |-> <<>>, mode |-> "idle"]

ScnIdle == [phase |-> "prepare", okind |-> "none", otgt |-> NoInst, oval |-> 0,
            ikind |-> "none", itgt |-> NoInst, ival |-> 0, added |-> {}]

\* ------------------------------------- one dirty instance, column by column
\* the fields of the record type in declaration order: the key, then two columns
Fields == <<"id", "name", "age">>
PkField == "id"
NonPk == {Fields[n] : n \in 1..Len(Fields)} \ {PkField}

\* an instance nobody fetched yet
RowIdle ==
    [op |-> "init", cur |-> [f \in NonPk \cup {PkField} |-> 0],
     init |-> [f \in NonPk \cup {PkField} |-> 0], stmts |-> <<>>, err |-> "none"]

\* Session._normalize_db_value: a related instance becomes its key, any other
\* value (the columns here are plain ones) is passed through
NormalizeDbValue(f, v) == v

\* the loop of _persist_dirty without its comparison: every column is sent
RECURSIVE SetClausesEveryColumn(_, _)
SetClausesEveryColumn(r, fs) ==
    IF fs = <<>> THEN <<>>
    ELSE LET f == Head(fs)
             value == NormalizeDbValue(f, r.cur[f])
         IN IF f = PkField THEN SetClausesEveryColumn(r, Tail(fs))
            ELSE <<[col |-> f, val |-> value]>> \o SetClausesEveryColumn(r, Tail(fs))

\* the loop of _persist_dirty over the fields fs: the key is skipped, a column
\* whose normalized value differs from _initial_state gets a "col = ?" clause
\* and a parameter
RECURSIVE SetClauses(_, _)
SetClauses(r, fs) ==
    IF fs = <<>> THEN <<>>
    ELSE LET f == Head(fs)
             value == NormalizeDbValue(f, r.cur[f])
         IN IF f = PkField THEN SetClauses(r, Tail(fs))
            ELSE IF value # r.init[f]
                 THEN <<[col |-> f, val |-> value]>> \o SetClauses(r, Tail(fs))
                 ELSE SetClauses(r, Tail(fs))

\* Model.full_clean over the columns of the instance
RowClean(r) == \A f \in NonPk : r.cur[f] # Bad

\* Session._persist_dirty(instance) on a fetched instance
PersistDirtyRow(r) ==
    IF ~RowClean(r)
    THEN [r EXCEPT !.op = "persist", !.err = "ValidationError", !.stmts = <<>>]
    ELSE LET set_clauses == SetClauses(r, Fields)
         IN IF set_clauses = <<>>
            THEN [r EXCEPT !.op = "persist", !.err = "none", !.stmts = <<>>]
            ELSE [r EXCEPT !.op = "persist", !.err = "none",
                           !.stmts = << [sql |-> "UPDATE", set |-> set_clauses,
                                         where |-> r.cur[PkField]] >>,
                           !.init = r.cur]

\* Field.__set__ through setattr(instance, f, v)
SetAttr(r, f, v) == [r EXCEPT !.op = "set", !.cur[f] = v]


\* ------------------------------------------------ the performance tracker
\* SQL texts as the caller writes them, character by character: two statements,
\* each also written with leading, trailing or doubled blanks
SqlTexts ==
    { <<"x">>, <<" ", "x", " ">>,
      <<"x", " ", "y">>, <<"x", " ", " ", "y">>, <<" ", "x", " ", "y">> }

\* parameter values: plain numbers, and lists and tuples of one number
ParamValues ==
    [kind : {"int"}, v : 1..MaxParam] \cup [kind : {"list", "tuple"}, v : {1}]

\* the parameter sequences of a call: none, or one value
ParamSeqs == {<<>>} \cup {<<x>> : x \in ParamValues}

\* str.split(): the words of a text; w is the word being read
RECURSIVE SplitWords(_, _)
SplitWords(s, w) ==
    IF s = <<>> THEN (IF w = <<>> THEN <<>> ELSE <<w>>)
    ELSE IF Head(s) = " "
         THEN (IF w = <<>> THEN <<>> ELSE <<w>>) \o SplitWords(Tail(s), <<>>)
         ELSE SplitWords(Tail(s), Append(w, Head(s)))

\* " ".join(words)
RECURSIVE JoinWords(_)
JoinWords(ws) ==
    IF ws = <<>> THEN <<>>
    ELSE IF Len(ws) = 1 THEN ws[1]
         ELSE ws[1] \o <<" ">> \o JoinWords(Tail(ws))

\* PerformanceTracker._normalize_sql
NormalizeSql(sql) == JoinWords(SplitWords(sql, <<>>))

\* PerformanceTracker._fingerprint: the empty text for no parameters, else the
\* repr of the values with every list turned into a tuple
Fingerprint(params) ==
    IF params = <<>> THEN <<>>
    ELSE [n \in 1..Len(params) |->
            IF params[n].kind = "list" THEN [params[n] EXCEPT !.kind = "tuple"]
            ELSE params[n]]

\* PerformanceTracker(logger): nothing recorded, the default threshold
PerfIdle ==
    [n_plus_one_threshold |-> 5, stats |-> <<>>, reported |-> {}, log |-> <<>>,
     op |-> "init", n |-> 0]

\* QueryStat.record
StatRecord(stat, fingerprint) ==
    [count |-> stat.count + 1,
     fingerprints |-> IF fingerprint # <<>> THEN stat.fingerprints \cup {fingerprint}
                      ELSE stat.fingerprints]

\* _should_report without its look at _reported
ShouldReportAgain(p, sql) ==
    IF p.stats[sql].count < p.n_plus_one_threshold THEN FALSE
    ELSE IF Cardinality(p.stats[sql].fingerprints) < 2 THEN FALSE
    ELSE TRUE

\* PerformanceTracker._should_report
ShouldReport(p, sql) ==
    IF p.stats[sql].count < p.n_plus_one_threshold THEN FALSE
    ELSE IF Cardinality(p.stats[sql].fingerprints) < 2 THEN FALSE
    ELSE IF sql \in p.reported THEN FALSE
    ELSE TRUE

\* PerformanceTracker._report: remember the text, log the warning
Report(p, sql) ==
    [p EXCEPT !.reported = @ \cup {sql},
              !.log = Append(@, [ev |-> "warning", sql |-> sql])]

\* PerformanceTracker.record(sql, params, elapsed_ms)
Record(p, sql, params) ==
    LET normalized_sql == NormalizeSql(sql)
        fingerprint == Fingerprint(params)
        old == IF normalized_sql \in DOMAIN p.stats THEN p.stats[normalized_sql]
               ELSE [count |-> 0, fingerprints |-> {}]
        stat == StatRecord(old, fingerprint)
        p1 == [p EXCEPT !.stats = [k \in DOMAIN p.stats \cup {normalized_sql} |->
                                     IF k = normalized_sql THEN stat ELSE p.stats[k]],
                        !.op = "record",
                        !.n = @ + 1]
    IN IF ShouldReport(p1, normalized_sql) THEN Report(p1, normalized_sql) ELSE p1

\* PerformanceTracker.summary(): a row for each text counted (the times left out)
Summary(p) ==
    {[sql |-> k, count |-> p.stats[k].count,
      distinct_params |-> Cardinality(p.stats[k].fingerprints)] : k \in DOMAIN p.stats}

\* a reset that forgets the counts but not which texts were reported
PerfResetKeepsReported(p) ==
    [p EXCEPT !.stats = <<>>,
              !.log = Append(@, [ev |-> "reset", sql |-> <<>>]),
              !.op = "reset",
              !.n = @ + 1]

\* PerformanceTracker.reset()
PerfReset(p) ==
    [p EXCEPT !.stats = <<>>, !.reported = {},
              !.log = Append(@, [ev |-> "reset", sql |-> <<>>]),
              !.op = "reset",
              !.n = @ + 1]

\* ------------------------------------------------------ the session lock
Threads == 1..MaxThreads
NoThread == 0

\* threading.RLock() as Session.__init__ creates it
Unlocked == [owner |-> NoThread, count |-> 0]

\* no thread is in a call
NoCalls == [t \in Threads |-> [inside |-> <<>>, waits |-> "none"]]

\* the methods of Session that start with "with self._lock"
Locked == {"begin", "commit", "rollback", "add", "delete", "flush", "execute"}

\* a statement inside a with block: work on the session's own state, or a call
\* of another locked method; sometimes marks a statement under an if or in a loop
Work(name, sometimes) == [kind |-> "work", name |-> name, sometimes |-> sometimes]
Calls(name, sometimes) == [kind |-> "call", name |-> name, sometimes |-> sometimes]

\* the statements inside the with block of each method, in order
Body(m) ==
    CASE m = "begin" ->
           << Work("transaction_manager.begin", FALSE), Work("_snapshot_uow", FALSE) >>
      [] m = "commit" ->
           << Calls("begin", TRUE), Calls("flush", FALSE),
              Work("transaction_manager.commit", FALSE),
              Work("_discard_uow_snapshot", FALSE),
              Work("unit_of_work.clear", TRUE) >>
      [] m = "rollback" ->
           << Work("transaction_manager.rollback", FALSE),
              Work("_restore_uow_snapshot", FALSE) >>
      [] m = "add" ->
           << Work("unit_of_work.register_new", FALSE), Calls("commit", TRUE) >>
      [] m = "delete" ->
           << Work("unit_of_work.register_deleted", FALSE), Calls("commit", TRUE) >>
      [] m = "flush" ->
           << Work("unit_of_work.collect_dirty", FALSE), Calls("execute", TRUE),
              Work("unit_of_work.discard", TRUE) >>
      [] m = "execute" ->
           << Work("adapter.execute", FALSE) >>

\* a lock that lets every thread in
MayAcquireAlways(mx, t) == TRUE

\* RLock.acquire() does not block thread t: the lock is free, or t owns it
MayAcquire(mx, t) == mx.owner \in {NoThread, t}

\* RLock.acquire() by thread t once it does not block
Acquire(mx, t) == [owner |-> t, count |-> mx.count + 1]

\* RLock.release()
Release(mx) ==
    IF mx.count <= 1 THEN Unlocked ELSE [mx EXCEPT !.count = @ - 1]

\* the frame of the method thread t is executing
TopFrame(t) == thr[t].inside[Len(thr[t].inside)]

\* thread t is inside a with block and has statements left in it
Running(t) ==
    /\ thr[t].inside # <<>> /\ thr[t].waits = "none"
    /\ TopFrame(t).pc <= Len(Body(TopFrame(t).m))

\* thread t moves on to the next statement of its method
Advance(t) == [thr EXCEPT ![t].inside[Len(thr[t].inside)].pc = @ + 1]


\* ------------------------------------------------ a table behind a lock
\* IdentityMap and InMemoryCache: a dict (_store) and an RLock (_lock); every
\* method is one with block around one dict operation.  add/set store under a
\* key, get reads a key, remove/delete pop a key, clear empties the dict,
\* values (IdentityMap only) copies the values out, entry by entry.
TableKeys == {"a", "b"}
TableVals == {"x", "y"}
NoEntry == "none"

TableOps ==
    [name : {"set"}, key : TableKeys, val : TableVals]
    \cup [name : {"get", "delete"}, key : TableKeys, val : {NoEntry}]
    \cup [name : {"clear", "values"}, key : {NoEntry}, val : {NoEntry}]

NoOp == [name |-> "none", key |-> NoEntry, val |-> NoEntry]
AtRest == [pc |-> "idle", op |-> NoOp, ret |-> {}, size |-> 0, seen |-> {}]

\* the keys a dict d holds
KeysOf(d) == {k \in TableKeys : d[k] # NoEntry}

EmptyDict == [k \in TableKeys |-> NoEntry]

\* IdentityMap() / InMemoryCache(): an empty dict, a free lock; with it the
\* dict that the operations would leave if they ran one after another in the
\* order they got the lock, and whether every result agreed with that dict
TblIdle ==
    [store |-> EmptyDict, owner |-> NoThread, th |-> [t \in Threads |-> AtRest],
     inorder |-> EmptyDict, failed |-> FALSE, agree |-> TRUE, n |-> 0]

\* what an operation that runs alone does to a dict
Alone(d, op) ==
    IF op.name = "set" THEN [d EXCEPT ![op.key] = op.val]
    ELSE IF op.name = "delete" THEN [d EXCEPT ![op.key] = NoEntry]
    ELSE IF op.name = "clear" THEN EmptyDict
    ELSE d

\* what an operation that runs alone returns
AloneReturns(d, op) ==
    IF op.name = "get" THEN {d[op.key]} \ {NoEntry}
    ELSE IF op.name = "values" THEN {d[k] : k \in KeysOf(d)}
    ELSE {}

InitCore ==
    /\ stack = <<>>
    /\ counter = 1
    /\ new = {} /\ dirty = {} /\ deleted = {}
    /\ snaps = <<>>
    /\ idmap = [k \in PK |-> NoInst]
    /\ inst = [i \in Inst |-> [live |-> FALSE, pk |-> NoPk, val |-> 0, init |-> 0,
                               src |-> "none"]]
    /\ cache = [k \in PK |-> Absent]
    /\ conn = TRUE
    /\ \E n \in 1..MaxPk : db = SeededDb(n)
    /\ last = [op |-> "init", arg |-> 0, pre |-> <<>>, stmts |-> <<>>, fired |-> <<>>,
               path |-> <<>>, found |-> FALSE, err |-> "none", ret |-> NoRet]
    /\ issued = <<>>
    /\ hist = [closed |-> FALSE, frames |-> <<>>]
    /\ steps = 0
    /\ scn = ScnIdle

\* ------------------------------------------- a many-to-many relation
\* Group.members = ManyToManyField(User): the owners are the saved groups, the
\* related the saved users, the junction table the set of its rows (its UNIQUE
\* constraint is what ExecJunctionInsert raises on).  cached[p] is the entry of
\* p._related_cache under the accessor name: hit says whether there is one,
\* list the primary keys of the instances in the list it holds.  asked is what
\* the calls that returned asked for: the pairs added and not removed or
\* cleared since.  rcached[r] is the entry of r._related_cache under the
\* related_name of the field, the list the reverse accessor r.groups holds;
\* who and objs are the instance and the related instances of the last call.
Owners == 1..MaxOwner
Related == 1..MaxRelated

NoList == [hit |-> FALSE, list |-> {}]

ObjSeqs == UNION {[1..n -> Related] : n \in 1..MaxObjs}

M2MIdle ==
    [junction |-> {}, cached |-> [p \in Owners |-> NoList],
     rcached |-> [r \in Related |-> NoList],
     asked |-> {}, err |-> "", op |-> "", who |-> 0, objs |-> {}, n |-> 0]

RelatedOf(m, p) == {r \in Related : <<p, r>> \in m.junction}
OwnersOf(m, r) == {p \in Owners : <<p, r>> \in m.junction}

M2MRaise(m, e) == [m EXCEPT !.err = e]

\* INSERT INTO through (left, right) VALUES (?, ?), ... : one statement, which
\* fails as a whole on a pair the table has or on the same pair twice
ExecJunctionInsert(m, p, values) ==
    IF \/ \E i \in 1..Len(values) : <<p, values[i]>> \in m.junction
       \/ \E i, j \in 1..Len(values) : i # j /\ values[i] = values[j]
    THEN M2MRaise(m, "IntegrityError")
    ELSE [m EXCEPT !.junction = @ \cup {<<p, values[i]>> : i \in 1..Len(values)}]

\* ManyToManyDescriptor.__get__: the cached list when there is one, else a
\* manager
GetsList(m, p) == m.cached[p].hit

\* ManyToManyManager.all
MgrAll(m, p) ==
    [m EXCEPT !.cached[p] = [hit |-> TRUE, list |-> RelatedOf(m, p)]]

\* ManyToManyManager.add
MgrAdd(m, p, objs) ==
    LET existing == RelatedOf(m, p)
        new_values == SelectSeq(objs, LAMBDA pk : pk \notin existing)
    IN IF new_values = <<>> THEN m
       ELSE LET r == ExecJunctionInsert(m, p, new_values)
            IN IF r.err # "" THEN r
               ELSE [r EXCEPT !.cached[p] = NoList]

\* ManyToManyManager.remove
MgrRemove(m, p, objs) ==
    [m EXCEPT !.junction = @ \ {<<p, objs[i]>> : i \in 1..Len(objs)},
              !.cached[p] = NoList]

\* ManyToManyManager.clear
MgrClear(m, p) ==
    [m EXCEPT !.junction = {pr \in @ : pr[1] # p},
              !.cached[p] = [hit |-> TRUE, list |-> {}]]

\* list.remove of the cached list: one argument, which must be in the list
ListRemove(m, p, objs) ==
    IF Len(objs) # 1 THEN M2MRaise(m, "TypeError")
    ELSE IF objs[1] \notin m.cached[p].list THEN M2MRaise(m, "ValueError")
    ELSE [m EXCEPT !.cached[p].list = @ \ {objs[1]}]

\* list.clear of the cached list
ListClear(m, p) == [m EXCEPT !.cached[p].list = {}]

\* instance.accessor.add(*objs)
AccessorAdd(m, p, objs) ==
    IF GetsList(m, p) THEN M2MRaise(m, "AttributeError") ELSE MgrAdd(m, p, objs)

\* instance.accessor.remove(*objs)
AccessorRemove(m, p, objs) ==
    IF GetsList(m, p) THEN ListRemove(m, p, objs) ELSE MgrRemove(m, p, objs)

\* instance.accessor.clear()
AccessorClear(m, p) ==
    IF GetsList(m, p) THEN ListClear(m, p) ELSE MgrClear(m, p)

\* list(instance.accessor): the cached list as it is, or the manager's all()
AccessorRead(m, p) ==
    IF GetsList(m, p) THEN m ELSE MgrAll(m, p)

\* list(related.groups), the reverse accessor: the cached list as it is, or
\* the all() of a manager with is_reverse set, which caches what it read
ReverseRead(m, r) ==
    IF m.rcached[r].hit THEN m
    ELSE [m EXCEPT !.rcached[r] = [hit |-> TRUE, list |-> OwnersOf(m, r)]]

\* Session._invalidate_m2m_cache: the entry of the instance is dropped, or
\* set to the empty list when no related instance was given; the entry of
\* each related instance given is dropped
InvalidateM2MCache(m, p, objs) ==
    [m EXCEPT !.cached[p] = IF objs # <<>> THEN NoList ELSE [hit |-> TRUE, list |-> {}],
              !.rcached = [r \in Related |->
                             IF \E i \in 1..Len(objs) : objs[i] = r THEN NoList
                             ELSE m.rcached[r]]]

\* Session.add_m2m
SAddM2M(m, p, objs) ==
    LET r == AccessorAdd(m, p, objs)
    IN IF r.err # "" THEN r ELSE InvalidateM2MCache(r, p, objs)

\* Session.remove_m2m
SRemoveM2M(m, p, objs) ==
    LET r == AccessorRemove(m, p, objs)
    IN IF r.err # "" THEN r ELSE InvalidateM2MCache(r, p, objs)

\* Session.clear_m2m
SClearM2M(m, p) == InvalidateM2MCache(AccessorClear(m, p), p, <<>>)

\* what the calls that returned have asked for so far
AskedAfter(asked, kind, p, objs) ==
    LET pairs == {<<p, objs[i]>> : i \in 1..Len(objs)}
    IN CASE kind = "add" -> asked \cup pairs
         [] kind = "remove" -> asked \ pairs
         [] kind = "clear" -> {pr \in asked : pr[1] # p}
         [] OTHER -> asked

\* ------------------------------------------------- query sets and Q objects
\* The objects are kept in two heaps, so that two references to one object are
\* one index: sets the QuerySet objects in the order they were made, heap the
\* Q objects.  A child of a Q is a lookup (ref = 0) or a reference to a Q.
\* held are the Q objects the caller built and still holds.
QFields == {"name"}
QValues == {0, 1}                 \* 0 is None
QPaths == {"author"}
NoneInt == -1                     \* None as limit or offset

Lookup(k, v) == [ref |-> 0, key |-> k, val |-> v]
RefTo(i) == [ref |-> i, key |-> "", val |-> 0]

EmptyQ == [children |-> <<>>, connector |-> "AND", negated |-> FALSE]

\* QuerySet(model): no filter, order, limit, offset or relation paths
QryIdle ==
    [sets |-> << [where |-> 1, ordering |-> <<>>, limit |-> NoneInt, offset |-> NoneInt,
                  select_related |-> <<>>, prefetch_related |-> <<>>] >>,
     heap |-> <<EmptyQ>>, held |-> <<>>, err |-> "", op |-> "", n |-> 0]

\* Q(**lookups)
NewQ(h, children) ==
    [heap |-> Append(h, [EmptyQ EXCEPT !.children = children]), ref |-> Len(h) + 1]

\* Q._clone: a new Q with a copy of the list of children
QClone(h, i) == [heap |-> Append(h, h[i]), ref |-> Len(h) + 1]

\* Q._combine
QCombine(h, a, b, connector) ==
    LET c1 == QClone(h, a)
        c2 == QClone(c1.heap, b)
    IN [heap |-> Append(c2.heap, [EmptyQ EXCEPT !.children = <<RefTo(c1.ref), RefTo(c2.ref)>>,
                                                 !.connector = connector]),
        ref |-> Len(c2.heap) + 1]

\* Q.__invert__
QInvert(h, a) ==
    LET c == QClone(h, a)
    IN [heap |-> [c.heap EXCEPT ![c.ref].negated = ~@], ref |-> c.ref]

\* Q.add used in place of Q.__and__: the receiver's own Q grows
AddQInPlace(h, where, q_object) ==
    [heap |-> [h EXCEPT ![where].children = @ \o <<RefTo(q_object)>>], ref |-> where]

\* QuerySet._add_q
AddQ(h, where, q_object) ==
    IF h[where].children = <<>> THEN [heap |-> h, ref |-> q_object]
    ELSE QCombine(h, where, q_object, "AND")

\* QuerySet._clone with the overrides already in rec
QSClone(m, rec) == [m EXCEPT !.sets = Append(@, rec)]

QRaise(m, e) == [m EXCEPT !.err = e]

\* tuple(dict.fromkeys(s)): the first occurrence of each element, in order
RECURSIVE FromKeys(_)
FromKeys(s) ==
    IF s = <<>> THEN <<>>
    ELSE LET front == FromKeys(SubSeq(s, 1, Len(s) - 1))
             x == s[Len(s)]
         IN IF \E i \in 1..Len(front) : front[i] = x THEN front ELSE Append(front, x)

QFilter(m, r, k, v) ==
    LET q == NewQ(m.heap, <<Lookup(k, v)>>)
        a == AddQ(q.heap, m.sets[r].where, q.ref)
    IN QSClone([m EXCEPT !.heap = a.heap], [m.sets[r] EXCEPT !.where = a.ref])

QExclude(m, r, k, v) ==
    LET q == NewQ(m.heap, <<Lookup(k, v)>>)
        inv == QInvert(q.heap, q.ref)
        a == AddQ(inv.heap, m.sets[r].where, inv.ref)
    IN QSClone([m EXCEPT !.heap = a.heap], [m.sets[r] EXCEPT !.where = a.ref])

QWhere(m, r, q_object) ==
    LET a == AddQ(m.heap, m.sets[r].where, q_object)
    IN QSClone([m EXCEPT !.heap = a.heap], [m.sets[r] EXCEPT !.where = a.ref])

QOrderBy(m, r, fields) == QSClone(m, [m.sets[r] EXCEPT !.ordering = fields])

QLimit(m, r, value) == QSClone(m, [m.sets[r] EXCEPT !.limit = value])

QOffset(m, r, value) == QSClone(m, [m.sets[r] EXCEPT !.offset = value])

QSelectRelated(m, r, fields) ==
    IF fields = <<>> THEN QRaise(m, "ValueError")
    ELSE QSClone(m, [m.sets[r] EXCEPT !.select_related = FromKeys(@ \o fields)])

QPrefetchRelated(m, r, fields) ==
    IF fields = <<>> THEN QRaise(m, "ValueError")
    ELSE QSClone(m, [m.sets[r] EXCEPT !.prefetch_related = FromKeys(@ \o fields)])

\* the caller builds Q(k=v) | Q(k=w) or ~Q(k=v) and keeps it
QBuildOr(m, k, v, w) ==
    LET a == NewQ(m.heap, <<Lookup(k, v)>>)
        b == NewQ(a.heap, <<Lookup(k, w)>>)
        c == QCombine(b.heap, a.ref, b.ref, "OR")
    IN [m EXCEPT !.heap = c.heap, !.held = Append(@, c.ref)]

QBuildNot(m, k, v) ==
    LET a == NewQ(m.heap, <<Lookup(k, v)>>)
        c == QInvert(a.heap, a.ref)
    IN [m EXCEPT !.heap = c.heap, !.held = Append(@, c.ref)]

\* SQLCompiler._compile_lookup, the exact lookup
CompileLookup(k, v) ==
    IF v = 0 THEN [sql |-> <<k, "IS NULL">>, params |-> <<>>]
    ELSE [sql |-> <<k, "=", "?">>, params |-> <<v>>]

\* separator.join(parts)
RECURSIVE JoinParts(_, _)
JoinParts(parts, sep) ==
    IF parts = <<>> THEN <<>>
    ELSE IF Len(parts) = 1 THEN parts[1]
    ELSE JoinParts(SubSeq(parts, 1, Len(parts) - 1), sep) \o <<sep>> \o parts[Len(parts)]

\* SQLCompiler._compile_q: the loop over the first k children, then the whole
RECURSIVE CompileChildren(_, _, _)
RECURSIVE CompileQ(_, _)
CompileChildren(h, i, k) ==
    IF k = 0 THEN [parts |-> <<>>, params |-> <<>>]
    ELSE LET before == CompileChildren(h, i, k - 1)
             child == h[i].children[k]
             c == IF child.ref # 0 THEN CompileQ(h, child.ref)
                  ELSE CompileLookup(child.key, child.val)
         IN IF child.ref # 0 /\ c.sql = <<>> THEN before
            ELSE [parts |-> Append(before.parts,
                                   IF child.ref # 0 THEN <<"(">> \o c.sql \o <<")">> ELSE c.sql),
                  params |-> before.params \o c.params]

CompileQ(h, i) ==
    LET all == CompileChildren(h, i, Len(h[i].children))
        sql == JoinParts(all.parts, h[i].connector)
    IN IF all.parts = <<>> THEN [sql |-> <<>>, params |-> <<>>]
       ELSE [sql |-> IF h[i].negated THEN <<"NOT", "(">> \o sql \o <<")">> ELSE sql,
             params |-> all.params]

IntText(n) == <<"0", "1", "2", "3", "4">>[n + 1]

\* SQLiteDialect.limit_clause
LimitClause(limit, offset) ==
    (IF limit # NoneInt THEN <<"LIMIT", IntText(limit)>> ELSE <<>>)
    \o (IF offset # NoneInt
        THEN (IF limit = NoneInt THEN <<"LIMIT", "-1">> ELSE <<>>) \o <<"OFFSET", IntText(offset)>>
        ELSE <<>>)

\* SQLCompiler._compile_ordering
CompileOrdering(f) ==
    IF f = "-name" THEN <<"name", "DESC">> ELSE <<f>>

\* SQLCompiler._build_select_list and _build_select_related_joins, per path
RECURSIVE PerPath(_, _)
PerPath(paths, word) ==
    IF paths = <<>> THEN <<>>
    ELSE <<word, paths[1]>> \o PerPath(Tail(paths), word)

\* QuerySet.to_sql
ToSql(m, i) ==
    LET s == m.sets[i]
        w == CompileQ(m.heap, s.where)
    IN [sql |-> <<"SELECT", "*">> \o PerPath(s.select_related, "AS")
                \o <<"FROM", "t">> \o PerPath(s.select_related, "LEFT JOIN")
                \o (IF w.sql # <<>> THEN <<"WHERE">> \o w.sql ELSE <<>>)
                \o (IF s.ordering # <<>>
                    THEN <<"ORDER BY">>
                         \o JoinParts([k \in 1..Len(s.ordering) |-> CompileOrdering(s.ordering[k])], ",")
                    ELSE <<>>)
                \o LimitClause(s.limit, s.offset),
        params |-> w.params]

\* ---------------------------------------------- prefetch_related
\* The models of tests/query/test_queryset_execution.py: Article.author is a
\* foreign key to Author (reverse accessor Author.articles), Article.categories
\* a many-to-many field to Category (reverse accessor Category.articles).  The
\* table of articles is the sequence of its foreign keys (0 is NULL), a row's
\* primary key its position; authors and categories are counts of rows.  A
\* path is the sequence of its segments.  A fact says what one instance has
\* under one relation name after the iteration: the primary keys of the
\* instances (a foreign key holds one or none).
PfRequests ==
    { [model |-> "Article", paths |-> << <<"author">> >>],
      [model |-> "Article", paths |-> << <<"categories">> >>],
      [model |-> "Article", paths |-> << <<"author">>, <<"categories">> >>],
      [model |-> "Article", paths |-> << <<"author", "articles">> >>],
      [model |-> "Author", paths |-> << <<"articles">> >>],
      [model |-> "Author", paths |-> << <<"articles", "categories">> >>],
      [model |-> "Category", paths |-> << <<"articles">> >>] }

NoRequest == [model |-> "", paths |-> <<>>]

PfIdle ==
    [db |-> [articles |-> <<>>, authors |-> 0, categories |-> 0, junction |-> {}],
     req |-> NoRequest, insts |-> {}, log |-> <<>>, facts |-> {}, done |-> FALSE]

RelKind(model, rel) ==
    CASE model = "Article" /\ rel = "author" -> "fk"
      [] model = "Author" /\ rel = "articles" -> "reverse"
      [] OTHER -> "m2m"

RelTarget(model, rel) ==
    CASE model = "Article" /\ rel = "author" -> "Author"
      [] model = "Article" /\ rel = "categories" -> "Category"
      [] OTHER -> "Article"

\* the primary keys of the rows of a model's table
PfRows(d, model) ==
    CASE model = "Article" -> 1..Len(d.articles)
      [] model = "Author" -> 1..d.authors
      [] OTHER -> 1..d.categories

Statement(i, j, what) == [path |-> i, seg |-> j, what |-> what]
Fact(model, pk, rel, val) == [model |-> model, pk |-> pk, rel |-> rel, val |-> val]
Nothing == [stmts |-> <<>>, facts |-> {}]

\* QuerySet._prefetch_forward: one SELECT ... WHERE pk IN (the foreign keys that
\* are not None), none when there is no such key
PrefetchForward(d, model, insts, rel, i, j) ==
    LET fk_values == {d.articles[a] : a \in insts} \ {0}
        rows == {p \in PfRows(d, RelTarget(model, rel)) : p \in fk_values}
    IN IF fk_values = {} THEN Nothing
       ELSE [stmts |-> <<Statement(i, j, "related")>>,
             facts |-> {Fact(model, a, rel, {d.articles[a]} \cap rows) : a \in insts}]

\* a SELECT of the children for every parent, in place of the one SELECT with IN
PrefetchReversePerRow(d, model, insts, rel, i, j) ==
    LET rows == {a \in PfRows(d, RelTarget(model, rel)) : d.articles[a] \in insts}
    IN [stmts |-> [k \in 1..Cardinality(insts) |-> Statement(i, j, "related")],
        facts |-> {Fact(model, p, rel, {a \in rows : d.articles[a] = p}) : p \in insts}]

\* QuerySet._prefetch_relation, the reverse one-to-many branch: one SELECT ...
\* WHERE fk IN (the parents' keys), the rows put into a bucket per parent
PrefetchReverse(d, model, insts, rel, i, j) ==
    LET rows == {a \in PfRows(d, RelTarget(model, rel)) : d.articles[a] \in insts}
    IN [stmts |-> <<Statement(i, j, "related")>>,
        facts |-> {Fact(model, p, rel, {a \in rows : d.articles[a] = p}) : p \in insts}]

\* QuerySet._prefetch_many_to_many: the junction rows of the parents, then,
\* when there are any, the related rows
PrefetchManyToMany(d, model, insts, rel, i, j) ==
    LET parent_is_remote == model = "Category"
        ParentId(row) == IF parent_is_remote THEN row[2] ELSE row[1]
        RelatedId(row) == IF parent_is_remote THEN row[1] ELSE row[2]
        rows == {row \in d.junction : ParentId(row) \in insts}
        related_rows == {p \in PfRows(d, RelTarget(model, rel)) :
                            \E row \in rows : RelatedId(row) = p}
    IN IF rows = {}
       THEN [stmts |-> <<Statement(i, j, "junction")>>,
             facts |-> {Fact(model, p, rel, {}) : p \in insts}]
       ELSE [stmts |-> <<Statement(i, j, "junction"), Statement(i, j, "related")>>,
             facts |-> {Fact(model, p, rel,
                             {RelatedId(row) : row \in {r \in rows : ParentId(r) = p}}
                                 \cap related_rows) : p \in insts}]

\* QuerySet._prefetch_relation
PrefetchRelation(d, model, insts, rel, i, j) ==
    CASE RelKind(model, rel) = "fk" -> PrefetchForward(d, model, insts, rel, i, j)
      [] RelKind(model, rel) = "reverse" -> PrefetchReverse(d, model, insts, rel, i, j)
      [] OTHER -> PrefetchManyToMany(d, model, insts, rel, i, j)

\* QuerySet._prefetch_related_data for one relation: the head, then the tail on
\* the children the head gave
RECURSIVE PrefetchPath(_, _, _, _, _, _)
PrefetchPath(d, model, insts, path, i, j) ==
    LET head == PrefetchRelation(d, model, insts, path[1], i, j)
        children == UNION {f.val : f \in head.facts}
        tail == IF Len(path) = 1 \/ children = {} THEN Nothing
                ELSE PrefetchPath(d, RelTarget(model, path[1]), children, Tail(path), i, j + 1)
    IN [stmts |-> head.stmts \o tail.stmts, facts |-> head.facts \cup tail.facts]

\* QuerySet._prefetch_related_data: nothing for no instances, else the
\* relations in turn
RECURSIVE PrefetchRelatedData(_, _, _, _, _)
PrefetchRelatedData(d, model, insts, paths, i) ==
    IF insts = {} \/ i > Len(paths) THEN Nothing
    ELSE LET this == PrefetchPath(d, model, insts, paths[i], i, 1)
             rest == PrefetchRelatedData(d, model, insts, paths, i + 1)
         IN [stmts |-> this.stmts \o rest.stmts, facts |-> this.facts \cup rest.facts]

\* QuerySet.__iter__ of session.query(model).prefetch_related(*paths)
PfIterate(m, req) ==
    LET insts == PfRows(m.db, req.model)
        r == PrefetchRelatedData(m.db, req.model, insts, req.paths, 1)
    IN [m EXCEPT !.req = req, !.insts = insts,
                 !.log = <<Statement(0, 0, "base")>> \o r.stmts,
                 !.facts = r.facts, !.done = TRUE]

\* ------------------------------------------- the adapters' execute
\* A statement is the sequence of its characters; of the parameters only the
\* number matters.  sent says whether the driver cursor's execute was called.
SqlChars == {"?", "%", "s", "x"}
Statements == UNION {[1..n -> SqlChars] : n \in 0..MaxSqlLen}
Adapters == {"sqlite", "postgres", "mysql"}

AdpIdle == [adapter |-> "", sql |-> <<>>, nparams |-> 0, err |-> "", sent |-> FALSE, op |-> ""]

\* SQLiteAdapter._count_placeholders: sql.count("?")
CountQuestionMarks(sql) == Cardinality({k \in 1..Len(sql) : sql[k] = "?"})

\* PostgresAdapter._count_placeholders and MySQLAdapter._count_placeholders:
\* the scan from idx on, which steps over "%s" and "%%" two characters at a time
RECURSIVE CountPercentS(_, _)
CountPercentS(sql, idx) ==
    IF idx >= Len(sql) THEN 0
    ELSE IF sql[idx] = "%" /\ sql[idx + 1] = "s" THEN 1 + CountPercentS(sql, idx + 2)
    ELSE IF sql[idx] = "%" /\ sql[idx + 1] = "%" THEN CountPercentS(sql, idx + 2)
    ELSE CountPercentS(sql, idx + 1)

CountPlaceholders(adapter, sql) ==
    IF adapter = "sqlite" THEN CountQuestionMarks(sql) ELSE CountPercentS(sql, 1)

\* SQLiteAdapter._validate_params: TRUE when it raises
SQLiteRejects(sql, nparams) ==
    LET placeholder_count == CountQuestionMarks(sql)
    IN IF nparams = 0 THEN FALSE
       ELSE IF placeholder_count = 0 THEN TRUE
       ELSE placeholder_count # nparams

\* PostgresAdapter._validate_params and MySQLAdapter._validate_params
PercentRejects(sql, nparams) ==
    LET placeholder_count == CountPercentS(sql, 1)
    IN IF placeholder_count = 0 THEN nparams # 0
       ELSE placeholder_count # nparams

\* execute(sql, params) of an adapter: the validation, then the cursor's
\* execute, where sqlite3 raises on a number of bindings that is not the
\* statement's
AdapterExecute(adapter, sql, nparams) ==
    LET rejects == IF adapter = "sqlite" THEN SQLiteRejects(sql, nparams)
                   ELSE PercentRejects(sql, nparams)
    IN [adapter |-> adapter, sql |-> sql, nparams |-> nparams, op |-> "execute",
        sent |-> ~rejects,
        err |-> IF rejects THEN "AdapterExecutionError"
                ELSE IF adapter = "sqlite" /\ CountQuestionMarks(sql) # nparams
                THEN "ProgrammingError" ELSE ""]

\* ------------------------------------------- the migration engine
\* An operation is its statement with the two flags of MigrationOperation.
\* stored is what the database holds once the adapter's transaction ended:
\* the ledger rows (the names of the migrations of one app) and the statements
\* whose effect was committed; log is what apply() sent to the adapter.
MigSql == {"create", "drop"}
MigNames == {"0001", "0002"}
\* a DROP is flagged destructive, a CREATE is not
MigOp ==
    {[sql |-> IF d THEN "drop" ELSE "create", destructive |-> d, force |-> f] :
        d \in BOOLEAN, f \in BOOLEAN}
MigOps == UNION {[1..n -> MigOp] : n \in 1..MaxOps}

Sent(what, k) == [what |-> what, k |-> k]

MigIdle ==
    [stored |-> [ledger |-> {}, done |-> {}], log |-> <<>>, err |-> "",
     name |-> "", ops |-> <<>>, op |-> ""]

\* a check that lets every operation through
ConfirmAnything(force) == ""

\* confirm_destructive_operation: the error it raises, "" when it returns
ConfirmDestructiveOperation(force) == IF force THEN "" ELSE "RuntimeError"

\* the loop of MigrationEngine.apply from operation k on, over the state w of
\* the open transaction
RECURSIVE ApplyFrom(_, _, _)
ApplyFrom(w, ops, k) ==
    IF k > Len(ops) THEN w
    ELSE LET refusal == IF ops[k].destructive
                        THEN ConfirmDestructiveOperation(ops[k].force) ELSE ""
         IN IF refusal # "" THEN [w EXCEPT !.err = refusal]
            ELSE ApplyFrom([w EXCEPT !.done = @ \cup {ops[k].sql},
                                     !.log = Append(@, Sent("op", k))], ops, k + 1)

\* MigrationEngine._record_migration: the INSERT, which the primary key of the
\* ledger refuses for a name it holds
RecordMigration(w, name) ==
    IF name \in w.ledger
    THEN [w EXCEPT !.log = Append(@, Sent("record", 0)), !.err = "IntegrityError"]
    ELSE [w EXCEPT !.log = Append(@, Sent("record", 0)), !.ledger = @ \cup {name}]

\* MigrationEngine.apply inside MigrationEngine._transaction: begin, the
\* operations and the ledger row, then commit, or rollback on an exception
MigApply(m, name, ops) ==
    LET begun == [ledger |-> m.stored.ledger, done |-> m.stored.done,
                  log |-> <<Sent("begin", 0)>>, err |-> ""]
        ran == ApplyFrom(begun, ops, 1)
        w == IF ran.err # "" THEN ran ELSE RecordMigration(ran, name)
    IN IF w.err # ""
       THEN [m EXCEPT !.log = Append(w.log, Sent("rollback", 0)), !.err = w.err,
                      !.name = name, !.ops = ops, !.op = "apply"]
       ELSE [m EXCEPT !.stored = [ledger |-> w.ledger, done |-> w.done],
                      !.log = Append(w.log, Sent("commit", 0)), !.err = "",
                      !.name = name, !.ops = ops, !.op = "apply"]

\* ------------------- the hooks of one flush.  The unit of work holds at
\* most one instance in each of new, dirty and deleted; every event has a
\* handler that notes it, and the database accepts each statement.  An entry
\* of the trace is an event or a statement and the instance it is for:
\* 1 the new one, 2 the dirty one, 3 the deleted one.
NoRec == [in |-> FALSE, pk |-> NoPk, val |-> 0, init |-> 0]
Recs == [in : {TRUE}, pk : PK \cup {NoPk}, val : Vals \cup {Bad}, init : Vals]

HkIdle == [pc |-> "new", batch |-> [new |-> NoRec, dirty |-> NoRec, deleted |-> NoRec],
           trace |-> <<>>, err |-> "none"]

\* HookDispatcher.fire(event, instance), and Session.execute of a statement
Event(h, name, id) == [h EXCEPT !.trace = Append(@, <<name, id>>)]
Sends(h, kind, id) == [h EXCEPT !.trace = Append(@, <<kind, id>>)]

\* Session._persist_new
PersistNewHooks(h, x, id) ==
    LET a == Event(h, "before_validate", id)
        b == Event(Event(a, "after_validate", id), "before_save", id)
    IN  IF x.val = Bad THEN [a EXCEPT !.err = "ValidationError"]
        ELSE Event(Sends(b, "INSERT", id), "after_save", id)

\* Session._persist_dirty
PersistDirtyHooks(h, x, id) ==
    LET a == Event(h, "before_validate", id)
        b == Event(Event(a, "after_validate", id), "before_save", id)
    IN  IF x.val = Bad THEN [a EXCEPT !.err = "ValidationError"]
        ELSE IF x.pk = NoPk THEN [b EXCEPT !.err = "ValueError"]
        ELSE IF x.val = x.init THEN b
        ELSE Event(Sends(b, "UPDATE", id), "after_save", id)

\* Session._persist_deleted
PersistDeletedHooks(h, x, id) ==
    IF x.pk = NoPk THEN h
    ELSE Event(Sends(Event(h, "before_delete", id), "DELETE", id), "after_delete", id)

\* one loop of Session.flush: nothing in the set, or the instance x in it
FlushLoop(h, x, r, then) ==
    IF ~x.in THEN [h EXCEPT !.pc = then]
    ELSE [r EXCEPT !.pc = IF r.err # "none" THEN "failed" ELSE then]

\* ------------------- select_related.  Record type i (below MaxHops) has one
\* foreign key, the field named i, to record type i + 1; its column has the
\* name of the field, and every table has the key column "id".  A relation
\* path is the sequence of its segments: <<0, 1>> is "0__1".  rows are the
\* rows of the base table 0, each the value of its foreign key (NoPk for
\* NULL); the table of type 1 has a row for every key.
Hops == 0..(MaxHops - 1)
RelPaths == UNION {[1..n -> Hops] : n \in 1..MaxHops}

SrIdle == [rows |-> <<>>, op |-> "", path |-> <<>>, joins |-> <<>>, err |-> "",
           attached |-> <<>>]

\* Options.get_field(segment) on record type model finds a relation
HasRelation(model, segment) == model \in Hops /\ segment = model

\* SQLCompiler._get_relation_field: the field of the last segment, reached by
\* walking the segments from the base type
RECURSIVE GetRelationField(_, _)
GetRelationField(model, path) ==
    IF ~HasRelation(model, Head(path))
    THEN [err |-> "KeyError", model |-> model, name |-> Head(path), remote |-> model]
    ELSE IF Len(path) = 1
    THEN [err |-> "", model |-> model, name |-> Head(path), remote |-> model + 1]
    ELSE GetRelationField(model + 1, Tail(path))

\* SQLCompiler._build_select_related_joins for one path: a single LEFT JOIN
\* of the table of the last field's target, on the column of that field
\* qualified with the base table
BuildSelectRelatedJoins(base, path) ==
    LET field == GetRelationField(base, path)
    IN  IF field.err # "" THEN [err |-> field.err, joins |-> <<>>]
        ELSE [err |-> "",
              joins |-> << [table |-> field.remote,
                            left |-> [table |-> base, column |-> field.name],
                            right |-> [table |-> field.remote, column |-> "id"]] >>]

\* the database runs the statement: a column the table does not have is an error
ExecutesJoins(joins) ==
    \A k \in 1..Len(joins) : HasRelation(joins[k].left.table, joins[k].left.column)

\* QuerySet._split_related_data: an aliased column "a__b__c" goes to the
\* chunk named by what stands before its first "__"
ChunkOf(alias) == <<Head(alias)>>

\* QuerySet._hydrate_select_related for the base row with foreign key fk:
\* what the attribute named by the last field is set to.  The columns of the
\* related table are aliased path__field.
HydrateSelectRelated(path, fk) ==
    IF ChunkOf(path \o <<"id">>) # path THEN NoPk
    ELSE fk

\* QuerySet.__iter__ with select_related(path)
IterateSelectRelated(s, path) ==
    LET c == BuildSelectRelatedJoins(0, path)
        t == [s EXCEPT !.op = "iterate", !.path = path, !.joins = c.joins, !.err = c.err,
                       !.attached = <<>>]
    IN  IF c.err # "" THEN t
        ELSE IF ~ExecutesJoins(c.joins) THEN [t EXCEPT !.err = "OperationalError"]
        ELSE [t EXCEPT !.attached = [n \in 1..Len(s.rows) |->
                                        HydrateSelectRelated(path, s.rows[n])]]

\* ------------- the parts checked on their own: what each leaves alone
\* everything but the parts added for one property each
old == <<core, obj, perf, mutex, thr>>

ExtIdle == tbl = TblIdle /\ m2m = M2MIdle /\ qry = QryIdle /\ pf = PfIdle /\ adp = AdpIdle /\ mig = MigIdle /\ hk = HkIdle /\ sr = SrIdle

\* all but tbl, which rests at TblIdle
notTbl == <<old, m2m, qry, pf, adp, mig, hk, sr>>
IdleNotTbl ==
    /\ InitCore /\ db = SeededDb(1)
    /\ cfg = [autocommit |-> FALSE, savepoints |-> TRUE, cache |-> FALSE, budget |-> 0]
    /\ obj = RowIdle /\ perf = PerfIdle /\ mutex = Unlocked /\ thr = NoCalls
    /\ m2m = M2MIdle
    /\ qry = QryIdle
    /\ pf = PfIdle
    /\ adp = AdpIdle
    /\ mig = MigIdle
    /\ hk = HkIdle
    /\ sr = SrIdle

\* all but m2m, which rests at M2MIdle
notM2m == <<old, tbl, qry, pf, adp, mig, hk, sr>>
IdleNotM2m ==
    /\ InitCore /\ db = SeededDb(1)
    /\ cfg = [autocommit |-> FALSE, savepoints |-> TRUE, cache |-> FALSE, budget |-> 0]
    /\ obj = RowIdle /\ perf = PerfIdle /\ mutex = Unlocked /\ thr = NoCalls
    /\ tbl = TblIdle
    /\ qry = QryIdle
    /\ pf = PfIdle
    /\ adp = AdpIdle
    /\ mig = MigIdle
    /\ hk = HkIdle
    /\ sr = SrIdle

\* all but qry, which rests at QryIdle
notQry == <<old, tbl, m2m, pf, adp, mig, hk, sr>>
IdleNotQry ==
    /\ InitCore /\ db = SeededDb(1)
    /\ cfg = [autocommit |-> FALSE, savepoints |-> TRUE, cache |-> FALSE, budget |-> 0]
    /\ obj = RowIdle /\ perf = PerfIdle /\ mutex = Unlocked /\ thr = NoCalls
    /\ tbl = TblIdle
    /\ m2m = M2MIdle
    /\ pf = PfIdle
    /\ adp = AdpIdle
    /\ mig = MigIdle
    /\ hk = HkIdle
    /\ sr = SrIdle

\* all but pf, which rests at PfIdle
notPf == <<old, tbl, m2m, qry, adp, mig, hk, sr>>
IdleNotPf ==
    /\ InitCore /\ db = SeededDb(1)
    /\ cfg = [autocommit |-> FALSE, savepoints |-> TRUE, cache |-> FALSE, budget |-> 0]
    /\ obj = RowIdle /\ perf = PerfIdle /\ mutex = Unlocked /\ thr = NoCalls
    /\ tbl = TblIdle
    /\ m2m = M2MIdle
    /\ qry = QryIdle
    /\ adp = AdpIdle
    /\ mig = MigIdle
    /\ hk = HkIdle
    /\ sr = SrIdle

\* all but adp, which rests at AdpIdle
notAdp == <<old, tbl, m2m, qry, pf, mig, hk, sr>>
IdleNotAdp ==
    /\ InitCore /\ db = SeededDb(1)
    /\ cfg = [autocommit |-> FALSE, savepoints |-> TRUE, cache |-> FALSE, budget |-> 0]
    /\ obj = RowIdle /\ perf = PerfIdle /\ mutex = Unlocked /\ thr = NoCalls
    /\ tbl = TblIdle
    /\ m2m = M2MIdle
    /\ qry = QryIdle
    /\ pf = PfIdle
    /\ mig = MigIdle
    /\ hk = HkIdle
    /\ sr = SrIdle

\* all but mig, which rests at MigIdle
notMig == <<old, tbl, m2m, qry, pf, adp, hk, sr>>
IdleNotMig ==
    /\ InitCore /\ db = SeededDb(1)
    /\ cfg = [autocommit |-> FALSE, savepoints |-> TRUE, cache |-> FALSE, budget |-> 0]
    /\ obj = RowIdle /\ perf = PerfIdle /\ mutex = Unlocked /\ thr = NoCalls
    /\ tbl = TblIdle
    /\ m2m = M2MIdle
    /\ qry = QryIdle
    /\ pf = PfIdle
    /\ adp = AdpIdle
    /\ hk = HkIdle
    /\ sr = SrIdle

\* all but hk, which rests at HkIdle
notHk == <<old, tbl, m2m, qry, pf, adp, mig, sr>>
IdleNotHk ==
    /\ InitCore /\ db = SeededDb(1)
    /\ cfg = [autocommit |-> FALSE, savepoints |-> TRUE, cache |-> FALSE, budget |-> 0]
    /\ obj = RowIdle /\ perf = PerfIdle /\ mutex = Unlocked /\ thr = NoCalls
    /\ tbl = TblIdle
    /\ m2m = M2MIdle
    /\ qry = QryIdle
    /\ pf = PfIdle
    /\ adp = AdpIdle
    /\ mig = MigIdle
    /\ sr = SrIdle

\* all but sr, which rests at SrIdle
notSr == <<old, tbl, m2m, qry, pf, adp, mig, hk>>
IdleNotSr ==
    /\ InitCore /\ db = SeededDb(1)
    /\ cfg = [autocommit |-> FALSE, savepoints |-> TRUE, cache |-> FALSE, budget |-> 0]
    /\ obj = RowIdle /\ perf = PerfIdle /\ mutex = Unlocked /\ thr = NoCalls
    /\ tbl = TblIdle
    /\ m2m = M2MIdle
    /\ qry = QryIdle
    /\ pf = PfIdle
    /\ adp = AdpIdle
    /\ mig = MigIdle
    /\ hk = HkIdle

\* ------------- a session with nothing else in use
InitCommon ==
    InitCore /\ obj = RowIdle /\ perf = PerfIdle /\ mutex = Unlocked /\ thr = NoCalls /\ ExtIdle

\* Session(adapter) with its defaults: autocommit off, and a dialect of the
\* repository (each of them supports savepoints)
Init == InitCommon /\ cfg = [autocommit |-> FALSE, savepoints |-> TRUE, cache |-> FALSE, budget |-> MaxSteps]

\* What one call op(arg) that leaves the program in state r does to the
\* session and its database.
Result(op, arg, r) ==
    /\ ~r.over
    /\ stack' = r.stack /\ counter' = r.counter
    /\ new' = r.new /\ dirty' = r.dirty /\ deleted' = r.deleted
    /\ snaps' = r.snaps /\ idmap' = r.idmap /\ inst' = r.inst
    /\ cache' = r.cache /\ conn' = r.conn /\ db' = r.db /\ issued' = r.issued
    /\ last' = [op |-> op, arg |-> arg, pre |-> stack, stmts |-> r.stmts,
                fired |-> r.fired, path |-> r.path, found |-> r.found,
                err |-> r.err, ret |-> r.ret]
    /\ hist' = [closed |-> hist.closed \/ op = "close", frames |-> r.frames]

\* One call op(arg) that leaves the program in state r.
Do(op, arg, r) == Result(op, arg, r) /\ UNCHANGED <<cfg, side>>

\* the instances the caller holds
Live == {i \in Inst : inst[i].live}

\* ------------------------------------------------ the steps of a session
\* a begin stays within the bounds of the model
BeginInBounds ==
    /\ Len(stack) < MaxDepth
    /\ (Len(stack) = 0 \/ counter <= MaxSavepoints)

\* One call of a session within the budget of the run.
Tick == steps < cfg.budget /\ steps' = steps + 1 /\ UNCHANGED scn

Begin == Tick /\ BeginInBounds /\ Do("begin", 0, SBegin(St))
Commit == Tick /\ \E r \in SCommit(St) : Do("commit", 0, r)
Rollback == Tick /\ Do("rollback", 0, SRollback(St))
Flush == Tick /\ \E r \in SFlush(St) : Do("flush", 0, r)
Close == Tick /\ Do("close", 0, SClose(St))
Add == Tick /\ \E i \in Live : \E r \in SAdd(St, i) : Do("add", i, r)
Delete == Tick /\ \E i \in Live : \E r \in SDelete(St, i) : Do("delete", i, r)
MarkDirty == Tick /\ \E i \in Live : Do("mark_dirty", i, SMarkDirty(St, i))
Get == Tick /\ \E k \in PK : Do("get", k, SGet(St, k))
Query == Tick /\ Do("query", 0, SQuery(St))
Construct == Tick /\ \E v \in Vals : Do("construct", v, NewInstance(St, v))
Assign == Tick /\ \E i \in Live : \E v \in Vals \ {inst[i].val} : Do("assign", i, SetField(St, i, v))

Next ==
    \/ Begin \/ Commit \/ Rollback \/ Flush \/ Close
    \/ Add \/ Delete \/ MarkDirty \/ Get \/ Query \/ Construct \/ Assign

Spec == Init /\ [][Next]_vars

\* ------------------- transaction frames: the session without its read side,
\* with autocommit on or off
InitFrames ==
    InitCommon /\ cfg \in [autocommit : BOOLEAN, savepoints : {TRUE}, cache : {FALSE},
                            budget : {MaxFrameSteps}]

FrameNext ==
    \/ Begin \/ Commit \/ Rollback \/ Flush \/ Close
    \/ Add \/ Delete \/ MarkDirty \/ Construct

SpecFrames == InitFrames /\ [][FrameNext]_vars

\* ------------------- fetched rows: the session over the rows of the table
\* only, with no instance constructed by the caller
InitFetch ==
    InitCommon /\ cfg = [autocommit |-> FALSE, savepoints |-> TRUE, cache |-> FALSE,
                         budget |-> MaxFetchSteps]

FetchNext ==
    \/ Begin \/ Commit \/ Rollback \/ Flush \/ Delete \/ Get \/ Query

SpecFetch == InitFetch /\ [][FetchNext]_vars

\* ------------------- a session with an InMemoryCache that other sessions on
\* the same database file share
InitCache ==
    InitCommon /\ cfg = [autocommit |-> FALSE, savepoints |-> TRUE, cache |-> TRUE,
                         budget |-> MaxCacheSteps]

PeerRead == Tick /\ \E k \in PK : Do("peer_get", k, PeerGet(St, k))

CacheNext ==
    \/ Begin \/ Commit \/ Rollback \/ Flush \/ Close
    \/ Delete \/ MarkDirty \/ Get \/ Assign \/ PeerRead

SpecCache == InitCache /\ [][CacheNext]_vars

\* --------------------------------------- the transaction manager on its own
InitTM ==
    InitCommon /\ cfg \in [autocommit : {FALSE}, savepoints : BOOLEAN, cache : {FALSE},
                            budget : {0}]

TMBeginInBounds ==
    /\ Len(stack) < MaxTMDepth
    /\ (Len(stack) = 0 \/ ~cfg.savepoints \/ counter <= MaxTMSavepoints)

TMBeginStep == TMBeginInBounds /\ Do("tm.begin", 0, TMBegin(St)) /\ UNCHANGED <<steps, scn>>
TMCommitStep == Do("tm.commit", 0, TMCommit(St)) /\ UNCHANGED <<steps, scn>>
TMRollbackStep == Do("tm.rollback", 0, TMRollback(St)) /\ UNCHANGED <<steps, scn>>

TMNext == TMBeginStep \/ TMCommitStep \/ TMRollbackStep

SpecTM == InitTM /\ [][TMNext]_vars

\* ----------------------------------- the nested-transaction scenario
\* The caller fetches or constructs the instances it will use, then runs
\* begin; outer mutation; begin; inner mutation; rollback; commit, every call
\* returning normally.  A mutation is an add of a transient instance, or a
\* delete of, or an assignment to, an instance held in the identity map; the
\* two mutations are on different instances, none of them registered before.
Held(i) == inst[i].pk # NoPk /\ idmap[inst[i].pk] = i
Untouched(i) == i \notin (new \cup dirty \cup deleted) /\ inst[i].val = inst[i].init

Mutate(kind, i, v, r) ==
    \/ /\ kind = "add" /\ inst[i].pk = NoPk /\ Untouched(i)
       /\ r \in SAdd(St, i) /\ Do("add", i, r)
    \/ /\ kind = "delete" /\ Held(i) /\ Untouched(i)
       /\ r \in SDelete(St, i) /\ Do("delete", i, r)
    \/ /\ kind = "assign" /\ Held(i) /\ Untouched(i) /\ v # inst[i].val
       /\ r = SetField(St, i, v) /\ Do("assign", i, r)

Kinds == {"add", "delete", "assign"}
Outcomes(kind, i, v) ==
    IF kind = "add" THEN SAdd(St, i)
    ELSE IF kind = "delete" THEN SDelete(St, i) ELSE {SetField(St, i, v)}

Prepare ==
    /\ scn.phase = "prepare"
    /\ (\E k \in PK : Do("get", k, SGet(St, k))) \/ (\E v \in Vals : Do("construct", v, NewInstance(St, v)))
    /\ last'.err = "none"
    /\ UNCHANGED <<scn, steps>>

OuterBegin ==
    /\ scn.phase = "prepare" /\ stack = <<>>
    /\ Do("begin", 0, SBegin(St)) /\ last'.err = "none"
    /\ scn' = [scn EXCEPT !.phase = "outer"] /\ UNCHANGED steps

OuterMutate ==
    /\ scn.phase = "outer"
    /\ \E kind \in Kinds, i \in Live, v \in Vals : \E r \in Outcomes(kind, i, v) :
        /\ Mutate(kind, i, v, r) /\ last'.err = "none"
        /\ scn' = [scn EXCEPT !.phase = "outerdone", !.okind = kind, !.otgt = i, !.oval = v] /\ UNCHANGED steps

InnerBegin ==
    /\ scn.phase = "outerdone"
    /\ Do("begin", 0, SBegin(St)) /\ last'.err = "none"
    /\ scn' = [scn EXCEPT !.phase = "inner"] /\ UNCHANGED steps

InnerMutate ==
    /\ scn.phase = "inner"
    /\ \E kind \in Kinds, i \in Live \ {scn.otgt}, v \in Vals : \E r \in Outcomes(kind, i, v) :
        /\ Mutate(kind, i, v, r) /\ last'.err = "none"
        /\ scn' = [scn EXCEPT !.phase = "innerdone", !.ikind = kind, !.itgt = i, !.ival = v] /\ UNCHANGED steps

InnerRollback ==
    /\ scn.phase = "innerdone"
    /\ Do("rollback", 0, SRollback(St)) /\ last'.err = "none"
    /\ scn' = [scn EXCEPT !.phase = "rolledback"] /\ UNCHANGED steps

OuterCommit ==
    /\ scn.phase = "rolledback"
    /\ \E r \in SCommit(St) : Do("commit", 0, r) /\ last'.err = "none"
    /\ scn' = [scn EXCEPT !.phase = "committed"] /\ UNCHANGED steps

NestedNext ==
    \/ Prepare \/ OuterBegin \/ OuterMutate \/ InnerBegin \/ InnerMutate
    \/ InnerRollback \/ OuterCommit

SpecNested == Init /\ [][NestedNext]_vars

\* ------------------------------------------------- one flush of a batch
\* The caller fetches and constructs instances, assigns fields (values that
\* the validators reject included), registers instances with add, delete and
\* mark_dirty, and then calls flush once.
Staging == scn.phase = "prepare" /\ Tick

StageGet == Staging /\ \E k \in PK : Do("get", k, SGet(St, k))
StageConstruct == Staging /\ \E v \in Vals \cup {Bad} : Do("construct", v, NewInstance(St, v))
StageAssign ==
    Staging /\ \E i \in Live : \E v \in (Vals \cup {Bad}) \ {inst[i].val} :
        Do("assign", i, SetField(St, i, v))
StageAdd == Staging /\ \E i \in Live : \E r \in SAdd(St, i) : Do("add", i, r)
StageDelete == Staging /\ \E i \in Live : \E r \in SDelete(St, i) : Do("delete", i, r)
StageMarkDirty == Staging /\ \E i \in Live : Do("mark_dirty", i, SMarkDirty(St, i))
FlushBatch ==
    /\ scn.phase = "prepare"
    /\ \E r \in SFlush(St) : Do("flush", 0, r)
    /\ scn' = [scn EXCEPT !.phase = "flushed"] /\ UNCHANGED steps

FlushNext ==
    \/ StageGet \/ StageConstruct \/ StageAssign \/ StageAdd \/ StageDelete
    \/ StageMarkDirty \/ FlushBatch

SpecFlush == Init /\ [][FlushNext]_vars

\* ------------------- the frames and snapshots of a session that is never
\* closed: autocommit on or off, a dialect with or without savepoints, and
\* instances that may fail validation
InitSnap ==
    InitCommon /\ cfg \in [autocommit : BOOLEAN, savepoints : BOOLEAN, cache : {FALSE},
                            budget : {MaxSteps}]

SnapNext ==
    \/ Begin \/ Commit \/ Rollback \/ Flush \/ Add \/ Delete \/ StageConstruct

SpecSnap == InitSnap /\ [][SnapNext]_vars

\* ------------------- the same session where the caller hands each instance
\* to add once and deletes nothing
InitOnce ==
    InitCommon /\ cfg \in [autocommit : BOOLEAN, savepoints : BOOLEAN, cache : {FALSE},
                            budget : {MaxOnceSteps}]

AddOnce ==
    /\ steps < cfg.budget /\ steps' = steps + 1
    /\ \E i \in Live \ scn.added :
         /\ \E r \in SAdd(St, i) : Do("add", i, r)
         /\ scn' = [scn EXCEPT !.added = @ \cup {i}]

OnceNext ==
    \/ Begin \/ Commit \/ Rollback \/ Flush \/ AddOnce \/ StageConstruct

SpecOnce == InitOnce /\ [][OnceNext]_vars

\* ------------------- the same session used through its context manager
WithTransaction ==
    Tick /\ BeginInBounds
         /\ \E i \in Live \cup {NoInst} : \E raises \in BOOLEAN :
              \E r \in STransaction(St, i, raises) : Do("transaction", i, r)

WithNext ==
    \/ Begin \/ Commit \/ Rollback \/ Flush \/ Add \/ StageConstruct \/ WithTransaction

SpecWith == InitSnap /\ [][WithNext]_vars

\* ------------------- threads that fetch rows through one session, statement
\* by statement.  Session.get holds the session lock from its first statement
\* to its last; QuerySet.__iter__ holds it only inside session.execute.
NoFetch == [pc |-> "idle", via |-> "none", key |-> NoPk, ret |-> NoInst]

InitRace ==
    /\ InitCore /\ ExtIdle
    /\ cfg = [autocommit |-> FALSE, savepoints |-> TRUE, cache |-> FALSE, budget |-> 0]
    /\ obj = RowIdle /\ perf = PerfIdle /\ mutex = Unlocked
    /\ thr = [t \in Threads |-> NoFetch]

\* the rows of the table
Stored == {k \in PK : db.rows[k] # Absent}

\* a thread calls session.get(T, pk=k) and reaches its "with self._lock"
CallGet ==
    /\ \E t \in Threads : \E k \in Stored :
         /\ thr[t].pc = "idle"
         /\ thr' = [thr EXCEPT ![t] = [pc |-> "lock", via |-> "get", key |-> k, ret |-> NoInst]]
    /\ UNCHANGED <<ext, core, obj, perf, mutex>>

\* a thread starts to iterate session.query(T).filter(pk=k)
CallIterate ==
    /\ \E t \in Threads : \E k \in Stored :
         /\ thr[t].pc = "idle"
         /\ thr' = [thr EXCEPT ![t] = [pc |-> "select", via |-> "iterate", key |-> k,
                                      ret |-> NoInst]]
    /\ UNCHANGED <<ext, core, obj, perf, mutex>>

\* Session.get enters its with block
GetEnter ==
    /\ \E t \in Threads :
         /\ thr[t].pc = "lock"
         /\ MayAcquire(mutex, t)
         /\ mutex' = Acquire(mutex, t)
         /\ thr' = [thr EXCEPT ![t].pc = "lookup"]
    /\ UNCHANGED <<ext, core, obj, perf>>

\* Session.get asks the identity map first
GetLookup ==
    /\ \E t \in Threads :
         /\ thr[t].pc = "lookup"
         /\ LET cached == IdGet(St, thr[t].key)
            IN  thr' = IF cached # NoInst
                       THEN [thr EXCEPT ![t].ret = cached, ![t].pc = "leave"]
                       ELSE [thr EXCEPT ![t].pc = "select"]
    /\ UNCHANGED <<ext, core, obj, perf, mutex>>

\* session.execute(SELECT ...): inside the session lock from start to end, so
\* no other thread holds the lock while it runs
FetchSelect ==
    /\ \E t \in Threads :
         /\ thr[t].pc = "select"
         /\ MayAcquire(mutex, t)
         /\ thr' = [thr EXCEPT ![t].pc = "materialize"]
    /\ UNCHANGED <<ext, core, obj, perf, mutex>>

\* Session._materialize, first half: identity_map.get, and the return of the
\* instance found there
MaterializeLookup ==
    /\ \E t \in Threads :
         /\ thr[t].pc = "materialize"
         /\ LET cached == IdGet(St, thr[t].key)
            IN  thr' = IF cached # NoInst
                       THEN [thr EXCEPT ![t].ret = cached,
                                        ![t].pc = IF thr[t].via = "get" THEN "leave" ELSE "done"]
                       ELSE [thr EXCEPT ![t].pc = "construct"]
    /\ UNCHANGED <<ext, core, obj, perf, mutex>>

\* Session._materialize, second half: model(**data), identity_map.add
MaterializeAdd ==
    /\ \E t \in Threads :
         /\ thr[t].pc = "construct"
         /\ FreeSlot(St) # NoInst
         /\ LET i == FreeSlot(St)
                k == thr[t].key
                r == IdAdd([St EXCEPT !.inst[i] = [live |-> TRUE, pk |-> k,
                                                   val |-> db.rows[k], init |-> db.rows[k],
                                                   src |-> "db"]], i)
            IN  /\ inst' = r.inst /\ idmap' = r.idmap
                /\ thr' = [thr EXCEPT ![t].ret = i,
                                      ![t].pc = IF thr[t].via = "get" THEN "leave" ELSE "done"]
    /\ UNCHANGED <<ext, coreRest, obj, perf, mutex>>

\* Session.get leaves its with block and returns
GetLeave ==
    /\ \E t \in Threads :
         /\ thr[t].pc = "leave"
         /\ mutex' = Release(mutex)
         /\ thr' = [thr EXCEPT ![t].pc = "done"]
    /\ UNCHANGED <<ext, core, obj, perf>>

RaceNext ==
    \/ CallGet \/ CallIterate \/ GetEnter \/ GetLookup \/ FetchSelect
    \/ MaterializeLookup \/ MaterializeAdd \/ GetLeave

SpecRace == InitRace /\ [][RaceNext]_vars

\* ------------------- threads on one locked table
InitTable == IdleNotTbl /\ tbl = TblIdle

\* a thread calls a method of the table and reaches its "with self._lock"
TblCall ==
    /\ tbl.n < MaxTableOps
    /\ \E t \in Threads : \E op \in TableOps :
         /\ tbl.th[t].pc = "idle"
         /\ tbl' = [tbl EXCEPT !.th[t] = [AtRest EXCEPT !.pc = "wait", !.op = op],
                               !.n = @ + 1]
    /\ UNCHANGED notTbl

\* __enter__ of the lock
TblEnter ==
    /\ \E t \in Threads :
         /\ tbl.th[t].pc = "wait"
         /\ MayAcquire(tbl, t)
         /\ tbl' = [tbl EXCEPT !.owner = t, !.th[t].pc = "in"]
    /\ UNCHANGED notTbl

\* the dict operation of add/set, get, remove/delete and clear
TblApply ==
    /\ \E t \in Threads :
         /\ tbl.th[t].pc = "in" /\ tbl.th[t].op.name # "values"
         /\ tbl' = [tbl EXCEPT !.store = Alone(@, tbl.th[t].op),
                               !.th[t].ret = AloneReturns(tbl.store, tbl.th[t].op),
                               !.th[t].pc = "out"]
    /\ UNCHANGED notTbl

\* list(self._store.values()) starts: the iterator notes the size of the dict
TblScanStart ==
    /\ \E t \in Threads :
         /\ tbl.th[t].pc = "in" /\ tbl.th[t].op.name = "values"
         /\ tbl' = [tbl EXCEPT !.th[t].size = Cardinality(KeysOf(tbl.store)),
                               !.th[t].pc = "scan"]
    /\ UNCHANGED notTbl

\* the iterator moves on: it raises RuntimeError when the dict changed size
\* under it, and stops when it has been over every entry
TblScanNext ==
    /\ \E t \in Threads :
         /\ tbl.th[t].pc = "scan"
         /\ IF Cardinality(KeysOf(tbl.store)) # tbl.th[t].size
            THEN tbl' = [tbl EXCEPT !.failed = TRUE, !.th[t].pc = "out"]
            ELSE IF KeysOf(tbl.store) \subseteq tbl.th[t].seen
            THEN tbl' = [tbl EXCEPT !.th[t].pc = "out"]
            ELSE \E k \in KeysOf(tbl.store) \ tbl.th[t].seen :
                   tbl' = [tbl EXCEPT !.th[t].seen = @ \cup {k},
                                      !.th[t].ret = @ \cup {tbl.store[k]}]
    /\ UNCHANGED notTbl

\* __exit__ of the lock and the return
TblLeave ==
    /\ \E t \in Threads :
         /\ tbl.th[t].pc = "out"
         /\ tbl' = [tbl EXCEPT
                      !.owner = IF @ = t THEN NoThread ELSE @,
                      !.inorder = Alone(@, tbl.th[t].op),
                      !.agree = @ /\ tbl.th[t].ret = AloneReturns(tbl.inorder, tbl.th[t].op),
                      !.th[t] = AtRest]
    /\ UNCHANGED notTbl

TableNext ==
    \/ TblCall \/ TblEnter \/ TblApply \/ TblScanStart \/ TblScanNext \/ TblLeave

SpecTable == InitTable /\ [][TableNext]_vars

\* ------------------- calls on one many-to-many relation
InitM2M == IdleNotM2m /\ m2m = M2MIdle

\* a call has run: its result, its name, and what it asked for when it returned
M2MDo(op, kind, p, objs, r) ==
    /\ m2m' = [r EXCEPT !.op = op, !.n = m2m.n + 1, !.who = p,
                        !.objs = {objs[i] : i \in 1..Len(objs)},
                        !.asked = IF r.err = "" THEN AskedAfter(@, kind, p, objs) ELSE @]
    /\ UNCHANGED notM2m

Fresh == [m2m EXCEPT !.err = ""]

M2MOpen == m2m.n < MaxM2MOps

RelAdd == M2MOpen /\ \E p \in Owners : \E objs \in ObjSeqs :
    M2MDo("add", "add", p, objs, AccessorAdd(Fresh, p, objs))

RelRemove == M2MOpen /\ \E p \in Owners : \E objs \in ObjSeqs :
    M2MDo("remove", "remove", p, objs, AccessorRemove(Fresh, p, objs))

RelClear == M2MOpen /\ \E p \in Owners :
    M2MDo("clear", "clear", p, <<>>, AccessorClear(Fresh, p))

RelRead == M2MOpen /\ \E p \in Owners :
    M2MDo("read", "read", p, <<>>, AccessorRead(Fresh, p))

RelReadReverse == M2MOpen /\ \E r \in Related :
    M2MDo("read_reverse", "read", 0, <<r>>, ReverseRead(Fresh, r))

AddM2M == M2MOpen /\ \E p \in Owners : \E objs \in ObjSeqs :
    M2MDo("add_m2m", "add", p, objs, SAddM2M(Fresh, p, objs))

RemoveM2M == M2MOpen /\ \E p \in Owners : \E objs \in ObjSeqs :
    M2MDo("remove_m2m", "remove", p, objs, SRemoveM2M(Fresh, p, objs))

ClearM2M == M2MOpen /\ \E p \in Owners :
    M2MDo("clear_m2m", "clear", p, <<>>, SClearM2M(Fresh, p))

M2MNext ==
    \/ RelAdd \/ RelRemove \/ RelClear \/ RelRead \/ RelReadReverse
    \/ AddM2M \/ RemoveM2M \/ ClearM2M

SpecM2M == InitM2M /\ [][M2MNext]_vars

\* ------------------- chained calls on query sets
InitQry == IdleNotQry /\ qry = QryIdle

QryOpen == qry.n < MaxChain

Chained(op, r) ==
    /\ qry' = [r EXCEPT !.op = op, !.n = qry.n + 1]
    /\ UNCHANGED notQry

Unraised == [qry EXCEPT !.err = ""]

Receivers == 1..Len(qry.sets)

ChainFilter == QryOpen /\ \E r \in Receivers : \E k \in QFields : \E v \in QValues :
    Chained("filter", QFilter(Unraised, r, k, v))

ChainExclude == QryOpen /\ \E r \in Receivers : \E k \in QFields :
    Chained("exclude", QExclude(Unraised, r, k, 1))

ChainWhere == QryOpen /\ \E r \in Receivers : \E u \in 1..Len(qry.held) :
    Chained("where", QWhere(Unraised, r, qry.held[u]))

ChainOrderBy == QryOpen /\ \E r \in Receivers :
    Chained("order_by", QOrderBy(Unraised, r, <<"-name">>))

ChainLimit == QryOpen /\ \E r \in Receivers :
    Chained("limit", QLimit(Unraised, r, 1))

ChainOffset == QryOpen /\ \E r \in Receivers :
    Chained("offset", QOffset(Unraised, r, 2))

ChainSelectRelated == QryOpen /\ \E r \in Receivers : \E f \in {<<>>, <<"author">>} :
    Chained("select_related", QSelectRelated(Unraised, r, f))

ChainPrefetchRelated == QryOpen /\ \E r \in Receivers : \E f \in {<<>>, <<"author">>} :
    Chained("prefetch_related", QPrefetchRelated(Unraised, r, f))

BuildOr == QryOpen /\ Chained("Q|Q", QBuildOr(Unraised, "name", 1, 0))

BuildNot == QryOpen /\ Chained("~Q", QBuildNot(Unraised, "name", 1))

QryNext ==
    \/ ChainFilter \/ ChainExclude \/ ChainWhere \/ ChainOrderBy \/ ChainLimit
    \/ ChainOffset \/ ChainSelectRelated \/ ChainPrefetchRelated
    \/ BuildOr \/ BuildNot

SpecQry == InitQry /\ [][QryNext]_vars

\* ------------------- rows inserted, then a query set with prefetch_related
\* iterated
InitPf == IdleNotPf /\ pf = PfIdle

Inserted(d) ==
    /\ pf' = [PfIdle EXCEPT !.db = d]
    /\ UNCHANGED notPf

InsertAuthor ==
    /\ pf.db.authors < MaxAuthors
    /\ Inserted([pf.db EXCEPT !.authors = @ + 1])

InsertCategory ==
    /\ pf.db.categories < MaxCategories
    /\ Inserted([pf.db EXCEPT !.categories = @ + 1])

\* the foreign key is NULL or the key of a row there is
InsertArticle ==
    /\ Len(pf.db.articles) < MaxArticles
    /\ \E fk \in 0..pf.db.authors : Inserted([pf.db EXCEPT !.articles = Append(@, fk)])

InsertJunction ==
    /\ \E a \in 1..Len(pf.db.articles) : \E c \in 1..pf.db.categories :
         /\ <<a, c>> \notin pf.db.junction
         /\ Inserted([pf.db EXCEPT !.junction = @ \cup {<<a, c>>}])

Iterate ==
    /\ ~pf.done
    /\ \E req \in PfRequests : pf' = PfIterate(pf, req)
    /\ UNCHANGED notPf

PfNext ==
    \/ InsertAuthor \/ InsertCategory \/ InsertArticle \/ InsertJunction \/ Iterate

SpecPf == InitPf /\ [][PfNext]_vars

\* ------------------- statements handed to the adapters
InitAdp == IdleNotAdp /\ adp = AdpIdle

Executed(adapter) ==
    /\ \E sql \in Statements : \E nparams \in 0..MaxBound :
         adp' = AdapterExecute(adapter, sql, nparams)
    /\ UNCHANGED notAdp

ExecuteSQLite == adp.op \in {"", "execute"} /\ Executed("sqlite")

ExecutePostgres == adp.op \in {"", "execute"} /\ Executed("postgres")

ExecuteMySQL == adp.op \in {"", "execute"} /\ Executed("mysql")

AdpNext == ExecuteSQLite \/ ExecutePostgres \/ ExecuteMySQL

SpecAdp == InitAdp /\ [][AdpNext]_vars

\* ------------------- migrations applied one after another
InitMig == IdleNotMig /\ mig = MigIdle

Apply ==
    /\ \E name \in MigNames : \E ops \in MigOps : mig' = MigApply(mig, name, ops)
    /\ UNCHANGED notMig

MigNext == Apply

SpecMig == InitMig /\ [][MigNext]_vars

\* ------------------- a session with a cache in which the caller constructs
\* instances, inserts them inside frames, rolls frames back and reads by key
InitUndo ==
    InitCommon /\ cfg = [autocommit |-> FALSE, savepoints |-> TRUE, cache |-> TRUE,
                         budget |-> MaxFetchSteps]

UndoNext ==
    \/ Begin \/ Rollback \/ Flush \/ Add \/ Construct \/ Get

SpecUndo == InitUndo /\ [][UndoNext]_vars

\* ------------------- threads that share one session, each running
\* "with session.transaction():" around a body that may add an instance.
\* begin, add, commit and rollback each hold Session._lock from their first
\* statement to their last, so each is one step; the lock is free between the
\* calls of a block, while its body runs.
NoFrame == Absent
NoBlock == [pc |-> "idle", mark |-> NoFrame, at |-> 0, popped |-> NoFrame, took |-> 0,
            err |-> "none"]

InitShare ==
    /\ InitCore /\ ExtIdle
    /\ cfg = [autocommit |-> FALSE, savepoints |-> TRUE, cache |-> FALSE, budget |-> 0]
    /\ obj = RowIdle /\ perf = PerfIdle /\ mutex = Unlocked
    /\ thr = [t \in Threads |-> NoBlock]

\* the thread enters its block: Session.begin.  It pushed the frame that is
\* on top afterwards, and its snapshot is the newest one.
BlockEnter ==
    /\ \E t \in Threads :
         /\ thr[t].pc = "idle"
         /\ LET r == SBegin(St)
            IN  /\ Result("begin", t, r)
                /\ thr' = [thr EXCEPT ![t] =
                             IF r.err # "none" THEN [@ EXCEPT !.pc = "done", !.err = r.err]
                             ELSE [@ EXCEPT !.pc = "inside", !.mark = Top(r.stack),
                                            !.at = Len(r.snaps)]]
    /\ UNCHANGED <<cfg, steps, scn, obj, perf, mutex, ext>>

\* the body of the block: x = T(val=v); session.add(x)
BlockAdd ==
    /\ \E t \in Threads : \E v \in Vals :
         /\ thr[t].pc = "inside"
         /\ FreeSlot(St) # NoInst
         /\ \E r \in SAdd(NewInstance(St, v), FreeSlot(St)) : Result("add", t, r)
         /\ thr' = [thr EXCEPT ![t].pc = "added"]
    /\ UNCHANGED <<cfg, steps, scn, obj, perf, mutex, ext>>

\* what the end of a block recorded: the frame and the snapshot that were
\* newest when its commit or rollback ran
Ended(t, r) ==
    [thr EXCEPT ![t] = [@ EXCEPT !.pc = "done", !.err = r.err,
                                 !.popped = IF stack = <<>> THEN NoFrame ELSE Top(stack),
                                 !.took = Len(snaps)]]

\* the body returned: the else branch of transaction(), Session.commit
BlockCommit ==
    /\ \E t \in Threads :
         /\ thr[t].pc \in {"inside", "added"}
         /\ \E r \in SCommit(St) : Result("commit", t, r) /\ thr' = Ended(t, r)
    /\ UNCHANGED <<cfg, steps, scn, obj, perf, mutex, ext>>

\* the body raised: the except branch of transaction(), Session.rollback
BlockRollback ==
    /\ \E t \in Threads :
         /\ thr[t].pc \in {"inside", "added"}
         /\ LET r == SRollback(St) IN Result("rollback", t, r) /\ thr' = Ended(t, r)
    /\ UNCHANGED <<cfg, steps, scn, obj, perf, mutex, ext>>

ShareNext == BlockEnter \/ BlockAdd \/ BlockCommit \/ BlockRollback

SpecShare == InitShare /\ [][ShareNext]_vars

\* ------------------- a session whose connection the caller may close behind
\* its back (adapter.close() on the adapter it handed to the session), and
\* whose transaction manager the caller may also drive directly
InitFail ==
    InitCommon /\ cfg = [autocommit |-> FALSE, savepoints |-> TRUE, cache |-> FALSE,
                         budget |-> MaxSteps]

Disconnect == Tick /\ conn /\ Do("adapter.close", 0, AdapterClose(St))
DirectBegin == Tick /\ TMBeginInBounds /\ Do("tm.begin", 0, TMBegin(St))
DirectCommit == Tick /\ Do("tm.commit", 0, TMCommit(St))
DirectRollback == Tick /\ Do("tm.rollback", 0, TMRollback(St))

FailNext ==
    \/ Begin \/ Commit \/ Rollback \/ Disconnect
    \/ DirectBegin \/ DirectCommit \/ DirectRollback

SpecFail == InitFail /\ [][FailNext]_vars

\* ------------------- a session that is closed and used again: frames, reads
\* by key and iteration of a query set, on the default configuration
InitReopen ==
    InitCommon /\ cfg = [autocommit |-> FALSE, savepoints |-> TRUE, cache |-> FALSE,
                         budget |-> MaxSteps]

ReopenNext ==
    \/ Begin \/ Commit \/ Rollback \/ Close \/ Get \/ Query

SpecReopen == InitReopen /\ [][ReopenNext]_vars

\* ------------------- a session whose caller fetches, constructs, assigns and
\* registers instances and flushes as often as it likes; a flush called
\* straight after a flush that raised nothing is told apart by its name
InitTwice ==
    InitCommon /\ cfg = [autocommit |-> FALSE, savepoints |-> TRUE, cache |-> FALSE,
                         budget |-> MaxSteps]

FlushedClean(l) == l.op \in {"flush", "flush_again"} /\ l.err = "none"

FlushFirst == Tick /\ ~FlushedClean(last) /\ \E r \in SFlush(St) : Do("flush", 0, r)
FlushAgain == Tick /\ FlushedClean(last) /\ \E r \in SFlush(St) : Do("flush_again", 0, r)

TwiceNext ==
    \/ Get \/ Construct \/ Assign \/ Add \/ Delete \/ MarkDirty
    \/ FlushFirst \/ FlushAgain

SpecTwice == InitTwice /\ [][TwiceNext]_vars

\* ------------------- one flush and the events its handlers saw
InitHk == IdleNotHk /\ hk = HkIdle

FlushNew ==
    /\ hk.pc = "new"
    /\ \E x \in Recs \cup {NoRec} :
         hk' = FlushLoop([hk EXCEPT !.batch.new = x],
                         x, PersistNewHooks([hk EXCEPT !.batch.new = x], x, 1), "dirty")
    /\ UNCHANGED notHk

FlushDirty ==
    /\ hk.pc = "dirty"
    /\ \E x \in Recs \cup {NoRec} :
         hk' = FlushLoop([hk EXCEPT !.batch.dirty = x],
                         x, PersistDirtyHooks([hk EXCEPT !.batch.dirty = x], x, 2), "deleted")
    /\ UNCHANGED notHk

FlushDeleted ==
    /\ hk.pc = "deleted"
    /\ \E x \in Recs \cup {NoRec} :
         hk' = FlushLoop([hk EXCEPT !.batch.deleted = x],
                         x, PersistDeletedHooks([hk EXCEPT !.batch.deleted = x], x, 3), "done")
    /\ UNCHANGED notHk

HkNext == FlushNew \/ FlushDirty \/ FlushDeleted

SpecHk == InitHk /\ [][HkNext]_vars

\* ------------------- select_related over a chain of foreign keys
InitSr == IdleNotSr /\ sr = SrIdle

InsertBaseRow ==
    /\ Len(sr.rows) < MaxBaseRows
    /\ \E fk \in PK \cup {NoPk} :
         sr' = [sr EXCEPT !.rows = Append(@, fk), !.op = "insert"]
    /\ UNCHANGED notSr

SelectRelatedToSql ==
    /\ sr.op # "to_sql"
    /\ \E path \in RelPaths :
         LET c == BuildSelectRelatedJoins(0, path)
         IN  sr' = [sr EXCEPT !.op = "to_sql", !.path = path, !.joins = c.joins,
                              !.err = c.err, !.attached = <<>>]
    /\ UNCHANGED notSr

SelectRelatedIterate ==
    /\ sr.rows # <<>>
    /\ \E path \in RelPaths : sr' = IterateSelectRelated(sr, path)
    /\ UNCHANGED notSr

SrNext == InsertBaseRow \/ SelectRelatedToSql \/ SelectRelatedIterate

SpecSr == InitSr /\ [][SrNext]_vars

\* ---------------------------------- one dirty instance on its own
\* an instance as Session._materialize leaves it: _initial_state is a copy of
\* the field values
InitDirty ==
    /\ InitCore /\ ExtIdle /\ db = SeededDb(1)
    /\ cfg = [autocommit |-> FALSE, savepoints |-> TRUE, cache |-> FALSE, budget |-> 0]
    /\ perf = PerfIdle /\ mutex = Unlocked /\ thr = NoCalls
    /\ \E k \in PK : \E n, a \in Vals :
         LET fv == [f \in NonPk \cup {PkField} |->
                      IF f = PkField THEN k ELSE IF f = "name" THEN n ELSE a]
         IN obj = [op |-> "init", cur |-> fv, init |-> fv, stmts |-> <<>>, err |-> "none"]

AssignColumn ==
    /\ \E f \in NonPk : \E v \in (Vals \cup {Bad}) \ {obj.cur[f]} : obj' = SetAttr(obj, f, v)
    /\ UNCHANGED <<ext, core, perf, mutex, thr>>

AssignKey ==
    /\ \E k \in PK \ {obj.cur[PkField]} : obj' = SetAttr(obj, PkField, k)
    /\ UNCHANGED <<ext, core, perf, mutex, thr>>

FlushDirtyRow ==
    /\ obj' = PersistDirtyRow(obj)
    /\ UNCHANGED <<ext, core, perf, mutex, thr>>

DirtyNext == AssignColumn \/ AssignKey \/ FlushDirtyRow

SpecDirty == InitDirty /\ [][DirtyNext]_vars

\* ---------------------------------- a performance tracker on its own
InitPerf ==
    /\ InitCore /\ ExtIdle /\ db = SeededDb(1)
    /\ cfg = [autocommit |-> FALSE, savepoints |-> TRUE, cache |-> FALSE, budget |-> 0]
    /\ obj = RowIdle /\ mutex = Unlocked /\ thr = NoCalls
    /\ \E th \in 1..MaxThreshold : perf = [PerfIdle EXCEPT !.n_plus_one_threshold = th]

RecordQuery ==
    /\ perf.n < MaxPerfSteps
    /\ \E sql \in SqlTexts : \E params \in ParamSeqs : perf' = Record(perf, sql, params)
    /\ UNCHANGED <<ext, core, obj, mutex, thr>>

ResetStats ==
    /\ perf.n < MaxPerfSteps
    /\ perf' = PerfReset(perf)
    /\ UNCHANGED <<ext, core, obj, mutex, thr>>

PerfNext == RecordQuery \/ ResetStats

SpecPerf == InitPerf /\ [][PerfNext]_vars

\* ------------------- the tracker of a session that the caller resets and
\* that Session.close resets
CloseSession ==
    /\ perf.n < MaxPerfSteps
    /\ Result("close", 0, SClose(St))
    /\ perf' = [PerfReset(perf) EXCEPT !.op = "close"]
    /\ UNCHANGED <<cfg, steps, scn, obj, mutex, thr, ext>>

TrackNext == RecordQuery \/ ResetStats \/ CloseSession

SpecTrack == InitPerf /\ [][TrackNext]_vars

\* ---------------------------------- threads sharing one session
InitLock ==
    /\ InitCore /\ ExtIdle /\ db = SeededDb(1)
    /\ cfg = [autocommit |-> FALSE, savepoints |-> TRUE, cache |-> FALSE, budget |-> 0]
    /\ obj = RowIdle /\ perf = PerfIdle
    /\ mutex = Unlocked /\ thr = NoCalls

\* a thread calls a method of the session and reaches its "with self._lock"
CallMethod ==
    /\ \E t \in Threads : \E m \in Locked :
         /\ thr[t].inside = <<>> /\ thr[t].waits = "none"
         /\ thr' = [thr EXCEPT ![t].waits = m]
    /\ UNCHANGED <<ext, core, obj, perf, mutex>>

\* __enter__ of the lock: the waiting thread gets in
EnterLock ==
    /\ \E t \in Threads :
         /\ thr[t].waits # "none"
         /\ MayAcquire(mutex, t)
         /\ mutex' = Acquire(mutex, t)
         /\ thr' = [thr EXCEPT ![t].inside = Append(@, [m |-> thr[t].waits, pc |-> 1]),
                               ![t].waits = "none"]
    /\ UNCHANGED <<ext, core, obj, perf>>

\* a statement that works on the session's state
DoWork ==
    /\ \E t \in Threads :
         /\ Running(t)
         /\ Body(TopFrame(t).m)[TopFrame(t).pc].kind = "work"
         /\ thr' = Advance(t)
    /\ UNCHANGED <<ext, core, obj, perf, mutex>>

\* a call of another locked method from inside the with block
CallNested ==
    /\ \E t \in Threads :
         /\ Running(t)
         /\ Body(TopFrame(t).m)[TopFrame(t).pc].kind = "call"
         /\ thr' = [Advance(t) EXCEPT ![t].waits = Body(TopFrame(t).m)[TopFrame(t).pc].name]
    /\ UNCHANGED <<ext, core, obj, perf, mutex>>

\* a statement under an if whose condition is false, or a loop with nothing left
SkipStatement ==
    /\ \E t \in Threads :
         /\ Running(t)
         /\ Body(TopFrame(t).m)[TopFrame(t).pc].sometimes
         /\ thr' = Advance(t)
    /\ UNCHANGED <<ext, core, obj, perf, mutex>>

\* __exit__ of the lock at the end of the with block, and the return
LeaveLock ==
    /\ \E t \in Threads :
         /\ thr[t].inside # <<>> /\ thr[t].waits = "none"
         /\ TopFrame(t).pc > Len(Body(TopFrame(t).m))
         /\ mutex' = Release(mutex)
         /\ thr' = [thr EXCEPT ![t].inside = SubSeq(@, 1, Len(@) - 1)]
    /\ UNCHANGED <<ext, core, obj, perf>>

LockNext == CallMethod \/ EnterLock \/ DoWork \/ CallNested \/ SkipStatement \/ LeaveLock

SpecLock == InitLock /\ [][LockNext]_vars

\* =================================================================== claims
\* the committed table shows the mutation
InDatabase(kind, i, v) ==
    LET k == inst[i].pk
    IN  IF kind = "add" THEN k # NoPk /\ db.base.rows[k] = inst[i].val
        ELSE IF kind = "delete" THEN db.base.rows[k] = Absent
        ELSE db.base.rows[k] = v

\* C1: after begin; outer mutation; begin; inner mutation; rollback; commit
\* the database contains the outer mutation and not the inner one.
C1_NestedRollbackIsolation ==
    scn.phase = "committed"
        => /\ InDatabase(scn.okind, scn.otgt, scn.oval)
           /\ ~InDatabase(scn.ikind, scn.itgt, scn.ival)

Range(q) == {q[k] : k \in 1..Len(q)}
IsTMEnd(op) == op \in {"tm.commit", "tm.rollback"}
Uow == [new |-> new, dirty |-> dirty, deleted |-> deleted]

\* C2: a session that was never closed has not materialized two distinct
\* instances for the same primary key.
C2_OneInstancePerRow ==
    ~hist.closed =>
        \A i, j \in Live :
            (i # j /\ inst[i].src = "db" /\ inst[j].src = "db") => inst[i].pk # inst[j].pk

\* C3: a get(pk=k) straight after a get(pk=k), and an iteration of the query
\* straight after an iteration, return the very instances the first returned.
C3_RepeatedFetchSameInstance ==
    [][(/\ last.op \in {"get", "query"} /\ last'.op = last.op /\ last'.arg = last.arg
        /\ last.err = "none" /\ last'.err = "none")
       => last'.ret = last.ret]_vars

\* a get answered by the identity map alone, after an earlier fetch of the row
C3_Witness ==
    /\ last.op = "get" /\ last.err = "none" /\ last.stmts = <<>>
    /\ last.ret[last.arg] # NoInst /\ inst[last.ret[last.arg]].src = "db"

\* C4: no instance is in more than one of the sets new, dirty and deleted.
C4_SetsDisjoint ==
    /\ new \cap dirty = {}
    /\ new \cap deleted = {}
    /\ dirty \cap deleted = {}

\* C5: a rollback that succeeds leaves new, dirty and deleted exactly as the
\* begin that opened the rolled-back frame saw them.
C5_RollbackRestores ==
    [][(last'.op = "rollback" /\ last'.err = "none")
       => /\ new' = Top(hist.frames).new
          /\ dirty' = Top(hist.frames).dirty
          /\ deleted' = Top(hist.frames).deleted]_vars

\* C6: commit and rollback pop the newest open frame; the root frame gets the
\* native COMMIT / ROLLBACK and depth returns to 0 exactly then; a savepoint
\* frame gets RELEASE n, or ROLLBACK TO n then RELEASE n, with the name n
\* that the begin of that frame put in its SAVEPOINT statement.
C6_Expected(op, n) ==
    IF n = Root THEN (IF op = "tm.commit" THEN << <<"COMMIT", 0>> >> ELSE << <<"ROLLBACK", 0>> >>)
    ELSE (IF op = "tm.commit" THEN << <<"RELEASE", n>> >>
          ELSE << <<"ROLLBACK_TO", n>>, <<"RELEASE", n>> >>)

C6_StackDiscipline ==
    [][(IsTMEnd(last'.op) /\ stack # <<>>)
       => /\ stack' = Pop(stack)
          /\ last'.stmts = C6_Expected(last'.op, Top(hist.frames).name)
          /\ (Top(hist.frames).name = Root) <=> (stack' = <<>>)
          /\ (\E k \in 1..Len(last'.stmts) : last'.stmts[k][1] \in {"COMMIT", "ROLLBACK"})
                <=> (stack' = <<>>)]_vars

\* a savepoint frame was rolled back while another savepoint frame stays open
C6_Witness ==
    /\ last.op = "tm.rollback" /\ last.err = "none"
    /\ Len(last.pre) = 3 /\ Len(stack) = 2
    /\ last.stmts = << <<"ROLLBACK_TO", Top(last.pre)>>, <<"RELEASE", Top(last.pre)>> >>

\* C7: begin at depth 0 calls the native begin and pushes the root marker;
\* at depth > 0 it issues SAVEPOINT n and pushes n when the dialect supports
\* savepoints, and otherwise raises TransactionError with no statement and
\* the stack as it was; a begin that succeeds adds exactly one frame.
C7_Begin ==
    [][(last'.op = "tm.begin")
       => /\ IF stack = <<>>
             THEN last'.stmts = << <<"BEGIN", 0>> >> /\ stack' = <<Root>>
             ELSE IF cfg.savepoints
             THEN \E n \in 1..MaxTMSavepoints + 1 :
                     /\ last'.stmts = << <<"SAVEPOINT", n>> >>
                     /\ stack' = Append(stack, n)
             ELSE /\ last'.err = "TransactionError"
                  /\ last'.stmts = <<>>
                  /\ stack' = stack
          /\ last'.err = "none" => Len(stack') = Len(stack) + 1]_vars

\* a nested begin was refused for lack of savepoint support
C7_Witness ==
    /\ last.op = "tm.begin" /\ last.err = "TransactionError"
    /\ last.pre # <<>> /\ stack = last.pre /\ ~cfg.savepoints

\* C8: commit and rollback at depth 0 raise TransactionError, call the
\* adapter not at all and leave the stack empty.
C8_EmptyStack ==
    (IsTMEnd(last.op) /\ last.pre = <<>>)
        => /\ last.err = "TransactionError"
           /\ last.stmts = <<>>
           /\ stack = <<>>

C8_Witness == last.op = "tm.rollback" /\ last.pre = <<>> /\ issued # <<>>

\* C9 as claimed: Session.commit and Session.rollback at depth 0 raise a
\* transaction error.
C9_BothRaise ==
    (last.op \in {"commit", "rollback"} /\ last.pre = <<>>)
        => last.err = "TransactionError"

\* C9 as the code has it: Session.rollback at depth 0 raises a transaction
\* error; Session.commit at depth 0 raises none: it opens a root frame with
\* the native BEGIN, flushes, and when the flush succeeds issues COMMIT and is
\* back at depth 0.
C9_RollbackRaisesCommitBegins ==
    /\ (last.op = "rollback" /\ last.pre = <<>>) => last.err = "TransactionError"
    /\ (last.op = "commit" /\ last.pre = <<>>)
        => /\ last.err # "TransactionError"
           /\ last.stmts # <<>> /\ Head(last.stmts) = <<"BEGIN", 0>>
           /\ last.err = "none" => (stack = <<>> /\ Top(last.stmts) = <<"COMMIT", 0>>)

\* a commit with no frame open wrote a pending insert and committed it
C9_Witness ==
    /\ last.op = "commit" /\ last.pre = <<>> /\ last.err = "none"
    /\ \E k \in 1..Len(last.stmts) : last.stmts[k][1] = "INSERT"

\* C10: no savepoint name is handed out twice.
C10_NamesUnique ==
    \A a, b \in 1..Len(issued) : a # b => issued[a] # issued[b]

\* a name was issued after the frame of an earlier name had been closed
C10_Witness ==
    \E a, b \in 1..Len(issued) :
        a < b /\ issued[a] \notin Range(stack) /\ issued[b] \in Range(stack)

\* the calls that run Session.commit: commit itself, and add and delete of an
\* autocommit session
RunsCommit(op) == op = "commit" \/ (cfg.autocommit /\ op \in {"add", "delete"})

\* C11: a call fires after_commit only from a commit that succeeds and brings
\* the depth to 0; that commit fires it exactly once, right after the native
\* COMMIT as its last statement, and leaves new, dirty and deleted empty; a
\* commit that releases a savepoint, a commit that fails and a rollback fire
\* nothing.
C11_AfterCommitAtRootOnly ==
    /\ (RunsCommit(last.op) /\ last.err = "none" /\ stack = <<>>)
        => /\ last.fired = << <<"after_commit", Len(last.stmts)>> >>
           /\ last.stmts # <<>> /\ Top(last.stmts) = <<"COMMIT", 0>>
           /\ new = {} /\ dirty = {} /\ deleted = {}
    /\ ~(RunsCommit(last.op) /\ last.err = "none" /\ stack = <<>>)
        => last.fired = <<>>

\* the root commit of a transaction in which a savepoint was released before
C11_Witness ==
    /\ last.op = "commit" /\ last.err = "none" /\ last.pre = <<Root>>
    /\ last.fired # <<>> /\ issued # <<>>

\* the statements of the last call that write rows, by kind
Writes(kind) == {k \in 1..Len(last.stmts) : last.stmts[k][1] = kind}

\* C12: within one flush every INSERT comes before every UPDATE and every
\* UPDATE before every DELETE.
C12_InsertUpdateDelete ==
    last.op = "flush"
        => /\ \A a \in Writes("INSERT"), b \in Writes("UPDATE") \cup Writes("DELETE") : a < b
           /\ \A a \in Writes("UPDATE"), b \in Writes("DELETE") : a < b

\* a flush that issued statements of all three kinds
C12_Witness ==
    /\ last.op = "flush" /\ last.err = "none"
    /\ Writes("INSERT") # {} /\ Writes("UPDATE") # {} /\ Writes("DELETE") # {}

\* the last call issued a statement of that kind for instance i
Wrote(l, kind, i) == \E k \in 1..Len(l.stmts) : l.stmts[k] = <<kind, i>>

\* what a flush finds pending: the instances to insert, and the instances
\* to update (registered dirty, or found changed in the identity map)
ToInsert == new
ToUpdate ==
    {i \in (dirty \cup (IdValues(St) \ new)) : inst[i].pk # NoPk /\ inst[i].val # inst[i].init}

\* C18: when a record of a flush fails validation, no INSERT or UPDATE is
\* issued for it, and the other records pending in that flush are written.
C18_OthersStillWritten ==
    [][(last'.op = "flush" /\ last'.err = "ValidationError")
       => /\ \A i \in ToInsert \cup ToUpdate :
                inst[i].val = Bad
                    => ~Wrote(last', "INSERT", i) /\ ~Wrote(last', "UPDATE", i)
          /\ \A j \in ToInsert : inst[j].val # Bad => Wrote(last', "INSERT", j)
          /\ \A j \in ToUpdate \ ToInsert : inst[j].val # Bad => Wrote(last', "UPDATE", j)]_vars

\* C14: after add(x) and then a commit that succeeds, x has a primary key,
\* the identity map holds x under that key, and a get by that key returns x.
C14_CommittedInsertIsHeld ==
    [][(/\ last.op = "add" /\ last.err = "none"
        /\ last'.op = "commit" /\ last'.err = "none")
       => LET x == last.arg
              k == inst'[x].pk
          IN  /\ k # NoPk
              /\ idmap'[k] = x
              /\ SGet(St', k).ret[k] = x]_vars

\* C17: close leaves the identity map empty and new, dirty and deleted
\* empty, and issues no statement.
C17_CloseClearsBoth ==
    last.op = "close"
        => /\ \A k \in PK : idmap[k] = NoInst
           /\ new = {} /\ dirty = {} /\ deleted = {}
           /\ last.stmts = <<>>

\* C15: a get by primary key asks the identity map, then the cache, then the
\* database.  A hit in the identity map ends the lookup there.  A hit in the
\* cache issues no statement, registers the instance built from the payload
\* in the identity map, and the next get of the key returns that instance.
C15_LookupOrder ==
    [][(last'.op = "get" /\ last'.err = "none")
       => LET k == last'.arg
              got == last'.ret[k]
          IN  IF idmap[k] # NoInst
              THEN /\ last'.path = <<"identity_map">>
                   /\ got = idmap[k] /\ last'.stmts = <<>>
              ELSE IF cfg.cache /\ cache[k] # Absent
              THEN /\ last'.path = <<"identity_map", "cache">>
                   /\ last'.stmts = <<>>
                   /\ got # NoInst /\ idmap'[k] = got /\ inst'[got].val = cache[k]
                   /\ SGet(St', k).ret[k] = got
              ELSE /\ last'.path = <<"identity_map", "cache", "database">>
                   /\ last'.stmts = << <<"SELECT", k>> >>]_vars

\* a get answered from the cache for a row the database no longer agrees on
C15_Witness ==
    /\ last.op = "get" /\ last.err = "none" /\ last.path = <<"identity_map", "cache">>
    /\ last.ret[last.arg] # NoInst /\ inst[last.ret[last.arg]].src = "cache"

\* the last call committed the deletion of row k
CommittedDelete(k) ==
    /\ last'.op = "commit" /\ last'.err = "none"
    /\ db.base.rows[k] # Absent /\ db'.base.rows[k] = Absent

\* C16: after a flush that deleted x neither the identity map nor the cache
\* has an entry for the key of x; once the delete is committed, a get by
\* that key in a session sharing the cache reads the database and finds no row.
C16_DeleteEvicts ==
    [][/\ \A i \in Inst :
            (last'.op = "flush" /\ last'.err = "none" /\ Wrote(last', "DELETE", i))
                => idmap'[inst'[i].pk] = NoInst /\ cache'[inst'[i].pk] = Absent
       /\ \A k \in PK :
            CommittedDelete(k)
                => /\ Top(PeerGet(St', k).path) = "database"
                   /\ ~PeerGet(St', k).found]_vars

\* the columns of the instance whose value differs from _initial_state
Changed(r) == {f \in NonPk : r.cur[f] # r.init[f]}

\* C13: flushing a dirty instance whose values pass validation issues one
\* UPDATE whose SET list names exactly the columns other than the key that
\* differ from the initial snapshot, each once and with its current value, and
\* issues no statement at all when no such column differs.
C13_SetListIsTheChangedColumns ==
    [][obj'.op = "persist" /\ obj'.err = "none"
       => IF Changed(obj) = {}
          THEN obj'.stmts = <<>>
          ELSE /\ Len(obj'.stmts) = 1
               /\ obj'.stmts[1].sql = "UPDATE"
               /\ LET set == obj'.stmts[1].set
                  IN /\ {set[n].col : n \in 1..Len(set)} = Changed(obj)
                     /\ Len(set) = Cardinality(Changed(obj))
                     /\ \A n \in 1..Len(set) : set[n].val = obj.cur[set[n].col]]_vars

\* an UPDATE went out that sets one column of an instance whose key was
\* reassigned too, and leaves the other, unchanged column out
C13_Witness ==
    /\ obj.op = "persist" /\ obj.err = "none"
    /\ Len(obj.stmts) = 1
    /\ Len(obj.stmts[1].set) = 1
    /\ obj.stmts[1].set[1].col = "age"
    /\ obj.stmts[1].where # 0

\* the part of the tracker's log written after the last reset()
RECURSIVE SinceReset(_)
SinceReset(log) ==
    IF log = <<>> THEN <<>>
    ELSE IF log[Len(log)].ev = "reset" THEN <<>>
         ELSE Append(SinceReset(SubSeq(log, 1, Len(log) - 1)), log[Len(log)])

\* the warnings for the text sql among the log entries l
Warnings(l, sql) == {n \in 1..Len(l) : l[n] = [ev |-> "warning", sql |-> sql]}

\* how often the tracker p has counted the text sql
Executions(p, sql) == IF sql \in DOMAIN p.stats THEN p.stats[sql].count ELSE 0

\* C19: a record() logs the warning for the whitespace-normalized text it
\* counted exactly when, after it, the text has been executed at least threshold
\* times and with at least two distinct parameter fingerprints, and no warning
\* for the text was logged since the last reset; it logs nothing else. So a text
\* is reported at most once between resets, and never while it was seen with
\* one fingerprint only.
C19_ReportedOnceBetweenResets ==
    [][perf'.op = "record"
       => \E sql \in DOMAIN perf'.stats :
            LET stat == perf'.stats[sql]
                due == /\ stat.count >= perf.n_plus_one_threshold
                       /\ Cardinality(stat.fingerprints) >= 2
                before == Warnings(SinceReset(perf.log), sql) # {}
                warned == perf'.log = Append(perf.log, [ev |-> "warning", sql |-> sql])
            IN /\ stat.count = Executions(perf, sql) + 1
               /\ sql \in {NormalizeSql(t) : t \in SqlTexts}
               /\ warned <=> (due /\ ~before)
               /\ ~warned => perf'.log = perf.log
               /\ Cardinality(Warnings(SinceReset(perf'.log), sql)) <= 1]_vars

\* a text written with varying blanks was reported, and was executed again
\* afterwards without a second report
C19_Witness ==
    \E sql \in DOMAIN perf.stats :
        /\ perf.stats[sql].count > perf.n_plus_one_threshold
        /\ Cardinality(Warnings(SinceReset(perf.log), sql)) = 1
        /\ sql = <<"x", " ", "y">>

\* thread t is inside the with block of a locked method
Inside(t) == thr[t].inside # <<>>

\* C20: at most one thread at a time is inside add, delete, flush, begin,
\* commit, rollback or execute of a shared session; so while one thread is
\* between the first and the last statement of a commit(), no other thread is
\* inside any of them.
C20_OneThreadInside ==
    \A t, u \in Threads : t # u => ~(Inside(t) /\ Inside(u))

\* one thread is in the execute of the flush of a commit, holding the lock three
\* times over, while another thread waits to enter add
C20_Witness ==
    \E t, u \in Threads :
        /\ t # u
        /\ Len(thr[t].inside) = 3
        /\ thr[t].inside[1].m = "commit" /\ thr[t].inside[3].m = "execute"
        /\ mutex = [owner |-> t, count |-> 3]
        /\ thr[u].waits = "add" /\ ~Inside(u)

\* C28: in a session that is never closed, after every begin, commit, rollback,
\* flush, add and delete the number of stored unit-of-work snapshots equals the
\* transaction depth, also after a begin refused for lack of savepoints and
\* after a rollback refused at depth 0.
C28_SnapshotsMatchDepth == Len(snaps) = Depth(St)

\* a begin inside an open transaction was refused by a dialect without
\* savepoints; one frame and one snapshot remain
C28_Witness ==
    /\ last.op = "begin" /\ last.err = "TransactionError"
    /\ ~cfg.savepoints
    /\ Depth(St) = 1 /\ Len(snaps) = 1

\* the row the database holds for instance i, in the state before a call
RowOf(i) == IF inst[i].pk = NoPk THEN Absent ELSE db.rows[inst[i].pk]

\* C29: when every instance is handed to add at most once, a call issues an
\* INSERT for an instance only while the database holds no row of it: the
\* instance was never inserted, or a rollback has undone its INSERT. So no
\* instance has two INSERTs in effect, and the table never refuses one.
C29_NoSecondInsert ==
    [][/\ \A i \in Inst : Wrote(last', "INSERT", i) /\ steps' # steps => RowOf(i) = Absent
       /\ last'.err # "IntegrityError"]_vars

\* a rollback restored a snapshot that holds an instance whose INSERT it has
\* just undone: the instance keeps its key, its row is gone, and it is pending
\* again
C29_Witness ==
    /\ last.op = "rollback" /\ last.err = "none"
    /\ \E i \in new : inst[i].pk # NoPk /\ db.rows[inst[i].pk] = Absent

\* C30: a "with session.transaction():" block leaves the transaction depth and
\* the number of unit-of-work snapshots as it found them, however it is left.
C30_BlockRestoresDepth ==
    [][last'.op = "transaction" /\ steps' # steps
       => Len(stack') = Len(stack) /\ Len(snaps') = Len(snaps)]_vars

\* C21: threads that have fetched the same row through one session hold the
\* same instance, and the identity map holds that instance for the row.
C21_OneInstancePerRow ==
    \A t, u \in Threads :
        thr[t].pc = "done" /\ thr[u].pc = "done" /\ thr[t].key = thr[u].key
            => thr[t].ret = thr[u].ret /\ idmap[thr[t].key] = thr[t].ret

\* C22: under every interleaving of the threads no operation of a locked table
\* fails, every result and, whenever the lock is free, the table itself are
\* those of the operations run one after another in the order they got the
\* lock, and an entry changes only by an operation on its key or by clear.
C22_OperationsAreAtomic ==
    /\ [](/\ ~tbl.failed
          /\ tbl.agree
          /\ tbl.owner = NoThread => tbl.store = tbl.inorder)
    /\ [][\A k \in TableKeys :
            tbl'.store[k] # tbl.store[k]
                => \E t \in Threads :
                     /\ tbl.th[t].pc = "in"
                     /\ tbl.th[t].op.key = k \/ tbl.th[t].op.name = "clear"]_vars

\* one thread is copying the values of a table that holds an entry while
\* another waits at the lock with a set of the other key
C22_Witness ==
    \E t, u \in Threads :
        /\ tbl.owner = t /\ tbl.th[t].pc = "scan" /\ tbl.th[t].seen # {}
        /\ tbl.th[u].pc = "wait" /\ tbl.th[u].op.name = "set"
        /\ tbl.store[tbl.th[u].op.key] = NoEntry

\* C23: after any sequence of add, remove and clear calls on a many-to-many
\* relation, by the accessor or by the session's helpers, with reads of the
\* relation in between, the junction table holds exactly the pairs added and
\* not removed or cleared since.
C23_JunctionIsWhatWasAsked == m2m.junction = m2m.asked

IsChainCall(op) ==
    op \in {"filter", "exclude", "where", "order_by", "limit", "offset",
            "select_related", "prefetch_related"}

\* C25: a chain method that returns gives a new QuerySet, and whatever is
\* called leaves every QuerySet there was, the receiver among them, with the
\* same filter tree, ordering, limit, offset and relation paths, compiling to
\* the same SQL and parameters as before.
C25_ChainLeavesReceiver ==
    [][/\ \A i \in 1..Len(qry.sets) :
            /\ qry'.sets[i] = qry.sets[i]
            /\ ToSql(qry', i) = ToSql(qry, i)
       /\ \A j \in 1..Len(qry.heap) : qry'.heap[j] = qry.heap[j]
       /\ IsChainCall(qry'.op) /\ qry'.err = ""
            => Len(qry'.sets) = Len(qry.sets) + 1]_vars

\* two query sets that share one non-empty Q object, and a third whose filter
\* was combined from it
C25_Witness ==
    \E i, j, k \in 1..Len(qry.sets) :
        /\ i # j /\ qry.sets[i].where = qry.sets[j].where
        /\ qry.heap[qry.sets[i].where].children # <<>>
        /\ k > j /\ k > i
        /\ Len(qry.heap[qry.sets[k].where].children) = 2
        /\ ToSql(qry, k) # ToSql(qry, i)

\* the rows whose key matches the instance under the relation
Matching(d, model, pk, rel) ==
    CASE model = "Article" /\ rel = "author" -> {d.articles[pk]} \ {0}
      [] model = "Author" /\ rel = "articles" ->
            {a \in 1..Len(d.articles) : d.articles[a] = pk}
      [] model = "Article" /\ rel = "categories" -> {c \in 1..d.categories : <<pk, c>> \in d.junction}
      [] OTHER -> {a \in 1..Len(d.articles) : <<a, pk>> \in d.junction}

\* the model a segment of a path of the request starts from
RECURSIVE SegModel(_, _, _)
SegModel(model, path, j) ==
    IF j = 1 THEN model ELSE SegModel(RelTarget(model, path[1]), Tail(path), j - 1)

Segments == {<<i, j>> : i \in 1..Len(pf.req.paths), j \in 1..2}
              \cap {ij \in (1..3) \X (1..2) :
                      ij[1] <= Len(pf.req.paths) /\ ij[2] <= Len(pf.req.paths[ij[1]])}

SegKind(ij) ==
    RelKind(SegModel(pf.req.model, pf.req.paths[ij[1]], ij[2]), pf.req.paths[ij[1]][ij[2]])

FollowUps(ij) ==
    Cardinality({k \in 1..Len(pf.log) : pf.log[k].path = ij[1] /\ pf.log[k].seg = ij[2]})

\* every instance of the base SELECT has, under the first segment of every
\* path, exactly the instances whose key matches it
EachParentMatched ==
    /\ \A f \in pf.facts : f.val = Matching(pf.db, f.model, f.pk, f.rel)
    /\ \A p \in pf.insts : \A i \in 1..Len(pf.req.paths) :
         \/ \E f \in pf.facts :
              f.model = pf.req.model /\ f.pk = p /\ f.rel = pf.req.paths[i][1]
         \/ /\ RelKind(pf.req.model, pf.req.paths[i][1]) = "fk"
            /\ Matching(pf.db, pf.req.model, p, pf.req.paths[i][1]) = {}

OneBaseSelect ==
    /\ pf.log[1].what = "base"
    /\ \A k \in 2..Len(pf.log) :
         pf.log[k].what # "base" /\ <<pf.log[k].path, pf.log[k].seg>> \in Segments

\* C24 as the specification words it: one follow-up SELECT for every
\* foreign-key or reverse segment, whatever the rows
C24_OneFollowUpPerSegment ==
    pf.done =>
        /\ OneBaseSelect
        /\ \A ij \in Segments :
             IF SegKind(ij) = "m2m" THEN FollowUps(ij) <= 2 ELSE FollowUps(ij) = 1
        /\ EachParentMatched

\* C24: iterating a query set with prefetch_related executes one base SELECT
\* and, per path segment, at most one follow-up SELECT for a foreign-key or
\* reverse relation and at most two for a many-to-many relation, whatever the
\* number of rows: none when the base SELECT returns no row, and none for a
\* segment none of whose parents has a key to look up.  Each parent receives
\* exactly the related instances whose key matches it.
C24_FollowUpsBoundedByPaths ==
    pf.done =>
        /\ OneBaseSelect
        /\ \A ij \in Segments :
             FollowUps(ij) <= (IF SegKind(ij) = "m2m" THEN 2 ELSE 1)
        /\ pf.insts = {} => Len(pf.log) = 1
        /\ \A i \in 1..Len(pf.req.paths) :
             LET kind == SegKind(<<i, 1>>)
                 rel == pf.req.paths[i][1]
             IN /\ kind = "reverse" /\ pf.insts # {} => FollowUps(<<i, 1>>) = 1
                /\ kind = "fk" =>
                     (FollowUps(<<i, 1>>) = 1
                        <=> \E p \in pf.insts : Matching(pf.db, pf.req.model, p, rel) # {})
        /\ EachParentMatched

\* two articles of one author fetched with the author and, through the
\* author, the author's articles: three statements for two rows
C24_Witness ==
    /\ pf.done /\ pf.req.paths = << <<"author", "articles">> >>
    /\ Cardinality(pf.insts) = 2 /\ Len(pf.log) = 3
    /\ \E f \in pf.facts : f.model = "Author" /\ Cardinality(f.val) = 2

\* C26: for every adapter, execute with a number of parameters that is not the
\* number of placeholders of the statement, zero parameters for a statement
\* with placeholders included, raises an execution error and the driver
\* cursor's execute is not called.
C26_MismatchNeverSent ==
    (adp.op = "execute" /\ CountPlaceholders(adp.adapter, adp.sql) # adp.nparams)
        => (adp.err = "AdapterExecutionError" /\ ~adp.sent)

Refused(ops) == {k \in 1..Len(ops) : ops[k].destructive /\ ~ops[k].force}

SentOps(log) == {log[x].k : x \in {y \in 1..Len(log) : log[y].what = "op"}}

HasSent(log, what) == \E x \in 1..Len(log) : log[x].what = what

\* C27: apply() with an operation flagged destructive and not forced raises
\* before that operation's statement is executed, executes no later operation,
\* rolls the transaction back instead of committing it and records no ledger
\* row; when every destructive operation is forced, every operation is executed
\* and the migration is in the ledger.
C27_DestructiveNeedsForce ==
    [][LET ops == mig'.ops
           log == mig'.log
       IN IF Refused(ops) # {}
          THEN /\ mig'.err = "RuntimeError"
               /\ \A k \in SentOps(log) : \A r \in Refused(ops) : k < r
               /\ ~HasSent(log, "record") /\ ~HasSent(log, "commit")
               /\ log[Len(log)].what = "rollback"
               /\ mig'.stored = mig.stored
          ELSE /\ SentOps(log) = 1..Len(ops)
               /\ HasSent(log, "record")
               /\ mig'.name \in mig'.stored.ledger]_vars

\* a migration whose second operation is destructive and not forced: the first
\* was executed, then the rollback; and a forced one went through before
C27_Witness ==
    /\ mig.op = "apply" /\ Len(mig.ops) = 2
    /\ Refused(mig.ops) = {2}
    /\ SentOps(mig.log) = {1} /\ mig.err = "RuntimeError"
    /\ mig.stored.ledger # {} /\ "drop" \in mig.stored.done

\* the last call was a rollback that took the row of key k out of the database
RolledBackRow(k) ==
    /\ last'.op = "rollback" /\ last'.err = "none"
    /\ db.rows[k] # Absent /\ db'.rows[k] = Absent

\* C31: a rollback leaves the identity map and the second-level cache as they
\* were.  An instance whose INSERT the rollback undid is still in both, and a
\* get by its key straight after returns it from the identity map with no
\* statement, although the database has no such row.
C31_RollbackKeepsRegistrations ==
    [][/\ last'.op = "rollback" => idmap' = idmap /\ cache' = cache
       /\ \A k \in PK :
            RolledBackRow(k)
                => /\ idmap'[k] # NoInst /\ cache'[k] # Absent
                   /\ SGet(St', k).ret[k] = idmap'[k]
                   /\ SGet(St', k).stmts = <<>>
                   /\ SGet(St', k).path = <<"identity_map">>]_vars

\* a get that returned an instance for a key whose row was rolled back
C31_Witness ==
    /\ last.op = "get" /\ last.err = "none" /\ last.path = <<"identity_map">>
    /\ last.ret[last.arg] # NoInst /\ last.stmts = <<>>
    /\ db.rows[last.arg] = Absent /\ cache[last.arg] # Absent

\* C32: when threads share a session and each runs its own begin and then
\* commit or rollback, the commit or rollback of a thread pops the frame that
\* thread pushed and discards or restores the snapshot taken at that thread's
\* begin, whatever the interleaving.
C32_OwnFrameOwnSnapshot ==
    \A t \in Threads :
        (thr[t].pc = "done" /\ thr[t].mark # NoFrame)
            => thr[t].popped = thr[t].mark /\ thr[t].took = thr[t].at

\* the call ended in an error raised by the statement that ends a frame
EndStatementFailed(l) ==
    /\ l.op \in {"commit", "rollback", "tm.commit", "tm.rollback"}
    /\ l.err \in {"AdapterConnectionError", "OperationalError"}
    /\ l.stmts # <<>>
    /\ Top(l.stmts)[1] \in {"COMMIT", "ROLLBACK", "RELEASE", "ROLLBACK_TO"}

\* C33: when the COMMIT, ROLLBACK, RELEASE SAVEPOINT or ROLLBACK TO SAVEPOINT
\* of a commit or rollback fails, the frame is popped all the same: the depth
\* is one less than before the call, and the call leaves the snapshot stack of
\* the session as it was, so that the snapshot taken for the popped frame is
\* still on it.  A begin that fails leaves the depth as it was.
C33_FailedEndPopsFailedBeginDoesNot ==
    [][/\ EndStatementFailed(last')
            => /\ Len(stack') = Len(stack) - 1
               /\ stack' = Pop(stack)
               /\ snaps' = snaps
               /\ (last'.op \in {"commit", "rollback"} /\ Len(snaps) = Len(stack))
                      => Len(snaps') = Len(stack') + 1
       /\ (last'.op \in {"begin", "tm.begin"} /\ last'.err # "none")
            => stack' = stack /\ snaps' = snaps]_vars

\* a commit or rollback of the session whose statement failed, with the
\* snapshot of the popped frame left on the snapshot stack
C33_Witness ==
    /\ EndStatementFailed(last) /\ last.op \in {"commit", "rollback"}
    /\ Len(last.pre) = Len(stack) + 1
    /\ Len(snaps) = Len(stack) + 1

\* a begin on the manager whose SAVEPOINT failed with a frame open
C33_FailedBegin ==
    last.op = "tm.begin" /\ last.err = "AdapterConnectionError" /\ stack # <<>>

\* C34: close leaves the frame stack as it was.  A begin that finds the
\* connection closed and a frame still open reconnects and issues a SAVEPOINT,
\* not the native BEGIN, and pushes the savepoint on the frames left over.
C34_CloseKeepsFrames ==
    [][/\ last'.op = "close" => stack' = stack /\ ~conn'
       /\ (last'.op = "begin" /\ ~conn /\ stack # <<>>)
            => /\ conn' /\ last'.err = "none"
               /\ last'.stmts = << <<"SAVEPOINT", counter>> >>
               /\ stack' = Append(stack, counter)]_vars

\* the begin after a close with a frame open: its SAVEPOINT is the first
\* statement of the new connection
C34_Witness ==
    /\ hist.closed /\ last.op = "begin" /\ last.err = "none"
    /\ Len(stack) >= 2 /\ Len(snaps) = 1
    /\ last.stmts = << <<"SAVEPOINT", Top(stack)>> >>
    /\ db.mode = "sp" /\ Len(db.saves) = 1

\* C39: after a close the next use of the session (begin, commit, a get by
\* key, the iteration of a query set) finds the connection closed and opens
\* it again before its first statement.
C39_ReconnectsOnNextUse ==
    [][(~conn /\ last'.op \in {"begin", "commit", "get", "query"})
            => conn' /\ last'.err # "AdapterConnectionError"]_vars

\* C35: a flush that raises nothing leaves new, dirty and deleted empty, and
\* a flush called straight after it, with no registration and no assignment
\* in between, issues no statement and raises nothing.
C35_FlushIdempotent ==
    [][/\ FlushedClean(last')
            => /\ new' = {} /\ dirty' = {} /\ deleted' = {}
               /\ \A r \in SFlush(St') : r.stmts = <<>> /\ r.err = "none"
       /\ last'.op = "flush_again"
            => /\ last'.stmts = <<>> /\ last'.err = "none"
               /\ db' = db /\ inst' = inst /\ idmap' = idmap]_vars

\* a second flush in a row, after a flush that wrote to the database
C35_Witness ==
    /\ last.op = "flush_again" /\ last.err = "none" /\ last.stmts = <<>>
    /\ db.rows # db.base.rows
    /\ new = {} /\ dirty = {} /\ deleted = {}

\* what the handlers and the database saw for instance id, in order
Received(id) ==
    LET For(e) == e[2] = id
        mine == SelectSeq(hk.trace, For)
    IN  [n \in 1..Len(mine) |-> mine[n][1]]

\* C36: in a flush that raises nothing, each new and each dirty instance gets
\* before_validate, after_validate, before_save, its INSERT or UPDATE and
\* after_save, in that order and nothing else; each deleted instance gets
\* before_delete, its DELETE and after_delete.
C36_EventsAroundStatements ==
    (hk.pc = "done" /\ hk.err = "none")
        => /\ hk.batch.new.in
                => Received(1) = <<"before_validate", "after_validate", "before_save",
                                   "INSERT", "after_save">>
           /\ hk.batch.dirty.in
                => Received(2) = <<"before_validate", "after_validate", "before_save",
                                   "UPDATE", "after_save">>
           /\ hk.batch.deleted.in
                => Received(3) = <<"before_delete", "DELETE", "after_delete">>

\* the last call was an add, remove or clear that returned
Mutated(m) ==
    /\ m.op \in {"add", "remove", "clear", "add_m2m", "remove_m2m", "clear_m2m"}
    /\ m.err = ""

\* C37: after an add, remove or clear of a many-to-many relation, a read of
\* the relation through the accessor of the instance, and a read through the
\* reverse accessor of each related instance the call was about (for a clear:
\* each that was related before it), gives the rows the junction table has.
C37_ReadsFollowJunction ==
    [][Mutated(m2m')
        => LET p == m2m'.who
               affected == IF m2m'.op \in {"clear", "clear_m2m"}
                           THEN RelatedOf(m2m, p) ELSE m2m'.objs
           IN  /\ AccessorRead(m2m', p).cached[p].list = RelatedOf(m2m', p)
               /\ \A r \in affected :
                    ReverseRead(m2m', r).rcached[r].list = OwnersOf(m2m', r)]_vars

\* C38: reset() leaves the tracker as it was made: the summary is empty, no
\* count, fingerprint or reported text is kept, the threshold is the same.  A
\* text counted after it starts at one execution, and a text reported before
\* it is reported again by the record() that makes it due again.  Session.close
\* closes the connection and does the same to the tracker.
C38_ResetForgets ==
    [][/\ perf'.op \in {"reset", "close"}
            => /\ Summary(perf') = {}
               /\ perf'.stats = PerfIdle.stats /\ perf'.reported = PerfIdle.reported
               /\ perf'.n_plus_one_threshold = perf.n_plus_one_threshold
               /\ \A sql \in SqlTexts :
                    Executions(Record(perf', sql, <<>>), NormalizeSql(sql)) = 1
       /\ perf'.op = "close" => ~conn' /\ last'.op = "close"
       /\ perf'.op = "record"
            => \E sql \in DOMAIN perf'.stats :
                 LET stat == perf'.stats[sql]
                     due == /\ stat.count >= perf.n_plus_one_threshold
                            /\ Cardinality(stat.fingerprints) >= 2
                 IN  /\ stat.count = Executions(perf, sql) + 1
                     /\ (due /\ Warnings(SinceReset(perf.log), sql) = {})
                            => perf'.log = Append(perf.log, [ev |-> "warning", sql |-> sql])]_vars

\* a text reported, the session closed, and the same text reported again
C38_Witness ==
    /\ hist.closed /\ ~conn
    /\ \E i, j, k \in 1..Len(perf.log) :
         /\ i < j /\ j < k
         /\ perf.log[i].ev = "warning" /\ perf.log[j].ev = "reset"
         /\ perf.log[k] = perf.log[i]
    /\ Cardinality({j \in 1..Len(perf.log) : perf.log[j].ev = "reset"}) = 1

\* a path that follows the foreign keys from the base type
FollowsChain(path) == \A k \in 1..Len(path) : path[k] = k - 1

\* C40: select_related with a path of n segments compiles to one statement
\* with n LEFT JOINs, the k-th joining the foreign key column of the type the
\* k-th segment starts from to the key of the type it leads to; iterating it
\* runs, and every base record with a foreign key gets its related instance.
C40_OneJoinPerSegment ==
    (sr.op \in {"to_sql", "iterate"} /\ FollowsChain(sr.path))
        => /\ Len(sr.joins) = Len(sr.path)
           /\ \A k \in 1..Len(sr.joins) :
                sr.joins[k] = [table |-> k,
                               left |-> [table |-> k - 1, column |-> sr.path[k]],
                               right |-> [table |-> k, column |-> "id"]]
           /\ sr.op = "iterate"
                => /\ sr.err = ""
                   /\ Len(sr.attached) = Len(sr.rows)
                   /\ \A n \in 1..Len(sr.rows) : sr.attached[n] = sr.rows[n]

\* what does hold: a path of one segment gives the one join of the claim,
\* and iterating attaches the related instance to every base record
SingleSegmentJoins ==
    (sr.op \in {"to_sql", "iterate"} /\ FollowsChain(sr.path) /\ Len(sr.path) = 1)
        => /\ sr.joins = << [table |-> 1, left |-> [table |-> 0, column |-> 0],
                             right |-> [table |-> 1, column |-> "id"]] >>
           /\ sr.err = ""
           /\ sr.op = "iterate" => sr.attached = sr.rows

====
